---- MODULE Spec2Model ----
(***************************************************************************)
(* Model of the session / identity / moderation core of the chat server    *)
(* (src/chat-server.js).  Every socket.io event handler and REST endpoint  *)
(* that touches the in-memory maps is one atomic action: the server is a   *)
(* single-threaded event loop and no handler awaits before it mutates.     *)
(*                                                                         *)
(* Strings are sequences of one-character strings, so that toUpperCase,    *)
(* toLowerCase, trim and the regular expressions are computed.  A JS Set   *)
(* is a duplicate-free sequence in insertion order.  Random values that    *)
(* cannot collide in practice (uuidv4, 256-bit session tokens, socket ids) *)
(* are fresh numbers; device codes, which the code itself expects to       *)
(* collide, are drawn from a small set.                                    *)
(***************************************************************************)
EXTENDS Integers, Sequences, FiniteSets, TLC

VARIABLES
    sockets,            \* io.sockets.sockets: live socket id -> [ip, clientFingerprint, userId]
    nextSock,           \* next socket id handed out by socket.io
    allConnections,     \* Set of socket ids
    users,              \* Map socketId -> active user record
    userSessions,       \* Map userId -> Set of socketIds
    registeredUsers,    \* Map userId -> identity record
    sessionTokens,      \* Map sessionToken -> userId
    nextToken,          \* next value of generateSessionToken()
    nextUser,           \* next value of uuidv4() used as a user id
    bannedUsers,
    bannedNicknames,
    bannedIPs,
    bannedFingerprints,
    userFingerprints,   \* Map userId -> fingerprint
    adminId,
    messages,           \* Array of messages
    userLastMessages,   \* Map userId -> last accepted message text
    nextMsg,            \* next value of uuidv4() used as a message id
    now,                \* Date.now(), in units of half the retention time
    phase,              \* the process: "loading" until loadData() returned,
                        \* then "ready"; "crashed" once an exception escaped
    browser             \* one browser running the client: its stored token, its
                        \* page, and the events in flight on its connection

vars == <<sockets, nextSock, allConnections, users, userSessions, registeredUsers,
          sessionTokens, nextToken, nextUser, bannedUsers, bannedNicknames, bannedIPs,
          bannedFingerprints, userFingerprints, adminId,
          messages, userLastMessages, nextMsg, now, phase, browser>>

----------------------------------------------------------------------------
(* Bounds of the model *)

MaxSockets == 2
MaxUsers == 2
MaxTokens == 2
NumIPs == 2
NumFPs == 1
MaxMessages == 3
MaxCredTokens == 3
MaxTime == 2
MaxProcMessages == 2

(* Program constants *)

RetryLimit == 100
MESSAGE_RETENTION_TIME == 2      \* 24 hours, in the time unit of the model (12 hours)
SnapshotMessages == 1000
SaveEvery == 10
MinNick == 3
MaxNick == 20
CodeShapeMin == 4
CodeShapeMax == 6
FallbackExtra == 2
MaxMessageLen == 100
CapsMin == 3

None == 0               \* null / undefined for ids, tokens, fingerprints
NoStr == <<>>           \* null for strings (deviceCode: null)
All == 0                \* io.emit: broadcast to every connected socket

IPs == 1..NumIPs
FPs == 1..NumFPs

----------------------------------------------------------------------------
(* Strings *)

LowerAlpha == <<"a","b","c","d","e","f","g","h","i","j","k","l","m",
                "n","o","p","q","r","s","t","u","v","w","x","y","z">>
UpperAlpha == <<"A","B","C","D","E","F","G","H","I","J","K","L","M",
                "N","O","P","Q","R","S","T","U","V","W","X","Y","Z">>
Digits == {"0","1","2","3","4","5","6","7","8","9"}
Whitespace == {" "}

Range(f) == {f[i] : i \in DOMAIN f}

LowerLetters == Range(LowerAlpha)
UpperLetters == Range(UpperAlpha)

IsLower(c) == c \in LowerLetters
IsUpper(c) == c \in UpperLetters

\* the letter at the same place in the other alphabet
LowerToUpper == [c \in LowerLetters |-> UpperAlpha[CHOOSE i \in 1..26 : LowerAlpha[i] = c]]
UpperToLower == [c \in UpperLetters |-> LowerAlpha[CHOOSE i \in 1..26 : UpperAlpha[i] = c]]

toUpperCaseChar(c) == IF IsLower(c) THEN LowerToUpper[c] ELSE c

toLowerCaseChar(c) == IF IsUpper(c) THEN UpperToLower[c] ELSE c

toUpperCase(s) == [i \in 1..Len(s) |-> toUpperCaseChar(s[i])]
toLowerCase(s) == [i \in 1..Len(s) |-> toLowerCaseChar(s[i])]

RECURSIVE trimStart(_)
trimStart(s) ==
    IF s # <<>> /\ Head(s) \in Whitespace THEN trimStart(Tail(s)) ELSE s

RECURSIVE trimEnd(_)
trimEnd(s) ==
    IF s # <<>> /\ s[Len(s)] \in Whitespace THEN trimEnd(SubSeq(s, 1, Len(s) - 1)) ELSE s

trim(s) == trimEnd(trimStart(s))

\* /^[A-Z0-9]{4,6}$/.test(nickname.toUpperCase())
CodeShaped(nickname) ==
    LET u == toUpperCase(nickname) IN
    /\ Len(u) >= CodeShapeMin
    /\ Len(u) <= CodeShapeMax
    /\ \A i \in 1..Len(u) : IsUpper(u[i]) \/ u[i] \in Digits

\* /^[a-zA-Z0-9_]+$/
englishOnly(s) ==
    /\ Len(s) >= 1
    /\ \A i \in 1..Len(s) : IsLower(s[i]) \/ IsUpper(s[i]) \/ s[i] \in Digits \/ s[i] = "_"

Mefisto == <<"m","e","f","i","s","t","o">>

\* what generateDeviceCode() draws in the model: one of the 36^4 codes
DrawCodes == { <<"B","O","B","1">> }

\* what clients submit as setNickname payload: a nickname that has the shape
\* of a device code, the admin nickname, and payloads that fail validation
Nicknames == { <<"B","o","b","1">>,
               <<"M","e","f","i","s","t","o">>,
               <<"a","b">>,
               <<"a"," ","b">>,
               <<>> }

----------------------------------------------------------------------------
(* Maps, Sets and the state record the handlers are written over *)

MapSet(m, k, v) == [x \in (DOMAIN m) \cup {k} |-> IF x = k THEN v ELSE m[x]]
MapDelete(m, k) == [x \in (DOMAIN m) \ {k} |-> m[x]]
EmptyMap == [x \in {} |-> None]

\* Set.prototype.add / delete on an insertion-ordered JS Set
SetAdd(set, x) == IF x \in Range(set) THEN set ELSE Append(set, x)
SetDelete(set, x) == SelectSeq(set, LAMBDA y : y # x)

St == [ sockets |-> sockets, nextSock |-> nextSock, allConnections |-> allConnections,
        users |-> users, userSessions |-> userSessions,
        registeredUsers |-> registeredUsers, sessionTokens |-> sessionTokens,
        nextToken |-> nextToken, nextUser |-> nextUser,
        bannedUsers |-> bannedUsers, bannedNicknames |-> bannedNicknames,
        bannedIPs |-> bannedIPs, bannedFingerprints |-> bannedFingerprints,
        userFingerprints |-> userFingerprints, adminId |-> adminId,
        messages |-> messages, userLastMessages |-> userLastMessages,
        nextMsg |-> nextMsg, now |-> now, phase |-> phase,
        emitted |-> <<>>,       \* the events the handler has emitted so far
        db |-> "resolves",      \* what the database does with a write
        writes |-> <<>> ]       \* the writes the handler has handed to the database

\* socket.emit(...) when to is a socket id, io.emit(...) when to = All
Ev(to, ev) == [ to |-> to, ev |-> ev, nickname |-> NoStr, userId |-> None,
                sessionToken |-> None, deviceCode |-> NoStr, isAdmin |-> FALSE,
                flag |-> "", count |-> 0, messageId |-> None, message |-> NoStr,
                live |-> 0, history |-> <<>> ]

\* messages.filter(msg => msg.timestamp > Date.now() - MESSAGE_RETENTION_TIME)
recentMessages(st) ==
    SelectSeq(st.messages, LAMBDA msg : msg.timestamp > st.now - MESSAGE_RETENTION_TIME)

\* the event goes out; live records how many transports are open at that moment
Emit(st, e) ==
    [st EXCEPT !.emitted = Append(@, [e EXCEPT !.live = Cardinality(DOMAIN st.sockets)])]

\* Array.from(set): the elements in an order
RECURSIVE ArrayFrom(_)
ArrayFrom(set) ==
    IF set = {} THEN <<>>
    ELSE LET x == CHOOSE y \in set : TRUE IN <<x>> \o ArrayFrom(set \ {x})

\* Array.from(map.entries()): the [key, value] pairs in an order
Entries(map) ==
    LET keys == ArrayFrom(DOMAIN map) IN [ i \in 1..Len(keys) |-> <<keys[i], map[keys[i]]>> ]

\* messages.slice(-n)
Slice(msgs, n) ==
    IF Len(msgs) <= n THEN msgs ELSE SubSeq(msgs, Len(msgs) - n + 1, Len(msgs))

\* the document saveData() builds from the memory of the process
saveData(st) ==
    [ present |-> TRUE,
      registeredUsers |-> Entries(st.registeredUsers),
      sessionTokens |-> Entries(st.sessionTokens),
      messages |-> Slice(st.messages, SnapshotMessages),
      bannedUsers |-> ArrayFrom(st.bannedUsers),
      bannedNicknames |-> ArrayFrom(st.bannedNicknames),
      bannedIPs |-> ArrayFrom(st.bannedIPs),
      bannedFingerprints |-> ArrayFrom(st.bannedFingerprints),
      userFingerprints |-> Entries(st.userFingerprints),
      adminId |-> st.adminId,
      timestamp |-> st.now ]

\* the maps, sets and log of the process, without what the handler has
\* emitted or handed over
Memory(st) == [st EXCEPT !.emitted = <<>>, !.writes = <<>>]

\* what db is when saveData() runs: null (no connection), or a connection
\* whose updateOne() resolves, rejects, or stays pending for ever
DbStates == { "null", "resolves", "rejects", "pending" }

\* callSaveData with a slip: saveData() has no try/catch, so a rejected write
\* is an unhandled rejection and ends the process
callSaveDataUncaught(st) ==
    IF st.db = "null" THEN st
    ELSE IF st.db = "rejects" THEN [st EXCEPT !.phase = "crashed", !.sockets = [x \in {} |-> 0],
                                               !.messages = <<>>]
    ELSE [st EXCEPT !.writes = Append(@, [ memory |-> Memory(st), outcome |-> st.db ])]

\* saveData(); as the handlers call it, without await: the document is built
\* from the memory of that moment (saveData(w.memory) for a write w) and
\* handed to the database before the call returns; what the database does
\* with it is awaited, and caught, inside saveData() only
callSaveData(st) ==
    IF st.db = "null" THEN st
    ELSE [st EXCEPT !.writes = Append(@, [ memory |-> Memory(st), outcome |-> st.db ])]

\* payloads that are not strings: a number other than 0 and an object; both
\* are truthy and have no string methods
NumberPayload == <<"typeof number">>
ObjectPayload == <<"typeof object">>
NonStrings == { NumberPayload, ObjectPayload }

\* a TypeError thrown in a listener: nothing catches it, the process exits and
\* its memory and its connections are gone
Crash(st) ==
    [st EXCEPT !.phase = "crashed",
               !.sockets = EmptyMap, !.allConnections = {}, !.users = EmptyMap,
               !.userSessions = EmptyMap, !.registeredUsers = EmptyMap,
               !.sessionTokens = EmptyMap, !.bannedUsers = {}, !.bannedNicknames = {},
               !.bannedIPs = {}, !.bannedFingerprints = {},
               !.userFingerprints = EmptyMap, !.adminId = None, !.messages = <<>>,
               !.userLastMessages = EmptyMap]

----------------------------------------------------------------------------
(* Helpers of the server *)

\* crypto.randomBytes(32): a value never returned before
generateSessionToken(st) == st.nextToken

\* generateDeviceCode() + generateDeviceCode().substring(0, 2)
FallbackCodes == { c \o SubSeq(d, 1, FallbackExtra) : c \in DrawCodes, d \in DrawCodes }

CodeHeld(st, code) ==
    \E u \in DOMAIN st.registeredUsers : st.registeredUsers[u].deviceCode = code

\* The do-while loop of generateUniqueDeviceCode: the k-th draw is made only
\* after k - 1 draws that collided with a held code; a draw that is
\* not held is returned while attempts <= RetryLimit, and the draw that makes
\* attempts exceed RetryLimit is replaced by a longer code that is returned
\* without a look at the held codes.
generateUniqueDeviceCode(st) ==
    LET colliding == { c \in DrawCodes : CodeHeld(st, c) }
        CanReach(k) == k = 1 \/ colliding # {}
    IN  { c \in DrawCodes \ colliding : \E k \in 1..RetryLimit : CanReach(k) }
        \cup { f \in FallbackCodes : CanReach(RetryLimit + 1) }

\* what Math.random() makes generateDeviceCode() return, call after call
Draws == [ 1..(RetryLimit + 3) -> DrawCodes ]

\* DrawLoop with a slip: the first draw is returned without a look at the
\* codes that are held
DrawLoopNoRetry(st, draws, attempts) ==
    [ code |-> draws[attempts + 1], attempts |-> attempts + 1, fallback |-> FALSE ]

\* the do-while loop of generateUniqueDeviceCode, run on the draws, attempts
\* draws having been made so far: it leaves with the first draw that no
\* identity holds, and when attempts has passed RetryLimit with the longer
\* code, built from two more draws
DrawLoop(st, draws, attempts) ==
    LET free == { k \in (attempts + 1)..RetryLimit : ~CodeHeld(st, draws[k]) }
    IN  IF free = {}
        THEN [ code |-> draws[RetryLimit + 2]
                            \o SubSeq(draws[RetryLimit + 3], 1, FallbackExtra),
               attempts |-> RetryLimit + 1, fallback |-> TRUE ]
        ELSE LET made == CHOOSE k \in free : \A j \in free : k <= j
             IN  [ code |-> draws[made], attempts |-> made, fallback |-> FALSE ]

\* returns the id of the identity, None for null
validateSessionToken(st, sessionToken) ==
    IF sessionToken = None THEN None
    ELSE IF sessionToken \notin DOMAIN st.sessionTokens THEN None
    ELSE LET userId == st.sessionTokens[sessionToken] IN
         IF userId \notin DOMAIN st.registeredUsers THEN None
         ELSE IF st.registeredUsers[userId].sessionToken # sessionToken THEN None
         ELSE userId

\* registeredUsers is iterated in insertion order, which is the order of ids
validateDeviceCode(st, deviceCode) ==
    IF deviceCode = NoStr THEN None
    ELSE LET holders == { u \in DOMAIN st.registeredUsers :
                            st.registeredUsers[u].deviceCode = deviceCode } IN
         IF holders = {} THEN None
         ELSE CHOOSE u \in holders : \A v \in holders : u <= v

\* isNicknameAvailable with a slip: the banned nicknames are not looked at
isNicknameAvailableIgnoresBans(st, nickname) ==
    LET lowerNickname == toLowerCase(nickname) IN
    \A u \in DOMAIN st.registeredUsers :
        toLowerCase(st.registeredUsers[u].nickname) # lowerNickname

\* isNicknameAvailable with a slip: the registered nicknames are compared as
\* they were typed
isNicknameAvailableCaseSensitive(st, nickname) ==
    LET lowerNickname == toLowerCase(nickname) IN
    /\ lowerNickname \notin st.bannedNicknames
    /\ \A u \in DOMAIN st.registeredUsers :
          st.registeredUsers[u].nickname # nickname

isNicknameAvailable(st, nickname) ==
    LET lowerNickname == toLowerCase(nickname) IN
    /\ lowerNickname \notin st.bannedNicknames
    /\ \A u \in DOMAIN st.registeredUsers :
          toLowerCase(st.registeredUsers[u].nickname) # lowerNickname

----------------------------------------------------------------------------
(* socket.on('disconnect') *)

OnDisconnect(st, s, userId) ==
    LET st1 == [st EXCEPT !.allConnections = @ \ {s}]
        st2 == Emit(st1, [Ev(All, "onlineCount") EXCEPT
                             !.count = Cardinality(st1.allConnections)])
    IN  IF userId # None /\ s \in DOMAIN st2.users
        THEN LET user == st2.users[s]
                 st3 == [st2 EXCEPT !.users = MapDelete(@, s)]
             IN  IF userId \in DOMAIN st3.userSessions
                 THEN LET rest == SetDelete(st3.userSessions[userId], s) IN
                      IF Len(rest) = 0
                      THEN Emit([st3 EXCEPT !.userSessions = MapDelete(@, userId)],
                                [Ev(All, "userLeft") EXCEPT
                                    !.nickname = user.nickname,
                                    !.count = Cardinality(st3.allConnections)])
                      ELSE [st3 EXCEPT !.userSessions[userId] = rest]
                 ELSE st3
        ELSE st2

\* socket.disconnect(true) on a socket whose handlers are registered: socket.io
\* removes the socket and runs its 'disconnect' listeners before it returns
socketDisconnect(st, s) ==
    IF s \in DOMAIN st.sockets
    THEN OnDisconnect([st EXCEPT !.sockets = MapDelete(@, s)], s, st.sockets[s].userId)
    ELSE st

\* socket.disconnect(true) inside io.on('connection') before socket.on('disconnect')
socketDisconnectEarly(st, s) == [st EXCEPT !.sockets = MapDelete(@, s)]

----------------------------------------------------------------------------
(* io.on('connection') *)

\* HandshakeRotate with a slip: the IP is recorded, the token is left as it was
HandshakeRotateKeepsToken(st, userId, clientIP) ==
    [st EXCEPT !.registeredUsers[userId].ip = clientIP]

\* the IP-change branch of the cookie resume
HandshakeRotate(st, userId, clientIP) ==
    LET user == st.registeredUsers[userId]
        newSessionToken == generateSessionToken(st)
    IN  callSaveData(
        [st EXCEPT !.nextToken = @ + 1,
                   !.sessionTokens = MapSet(MapDelete(@, user.sessionToken),
                                            newSessionToken, userId),
                   !.registeredUsers[userId] =
                        [user EXCEPT !.ip = clientIP, !.sessionToken = newSessionToken]])

\* OnConnection with a slip: a connection turned away for its IP stays counted
OnConnectionKeepsBanned(st, clientIP, cookie) ==
    LET s == st.nextSock
        st0 == [st EXCEPT !.nextSock = @ + 1,
                          !.sockets = MapSet(@, s, [ip |-> clientIP,
                                                    clientFingerprint |-> None,
                                                    userId |-> None]),
                          !.allConnections = @ \cup {s}]
    IN  IF clientIP \in st0.bannedIPs
        THEN socketDisconnectEarly(Emit(st0, Ev(s, "banned")), s)
        ELSE
        LET st1 == Emit(st0, [Ev(All, "onlineCount") EXCEPT
                                 !.count = Cardinality(st0.allConnections)])
        IN  IF cookie = None THEN st1
            ELSE LET userId == validateSessionToken(st1, cookie) IN
                 IF userId = None THEN Emit(st1, Ev(s, "invalidSession"))
                 ELSE IF userId \in st1.bannedUsers
                 THEN LET st2 == socketDisconnectEarly(Emit(st1, Ev(s, "banned")), s)
                      IN  [st2 EXCEPT !.allConnections = @ \ {s}]
                 ELSE LET st2 == IF st1.registeredUsers[userId].ip # clientIP
                                 THEN HandshakeRotate(st1, userId, clientIP)
                                 ELSE st1
                          user == st2.registeredUsers[userId]
                      IN  Emit(st2, [Ev(s, "sessionValid") EXCEPT
                                        !.userId = userId,
                                        !.nickname = user.nickname,
                                        !.isAdmin = user.isAdmin,
                                        !.sessionToken = user.sessionToken])

OnConnection(st, clientIP, cookie) ==
    LET s == st.nextSock
        st0 == [st EXCEPT !.nextSock = @ + 1,
                          !.sockets = MapSet(@, s, [ip |-> clientIP,
                                                    clientFingerprint |-> None,
                                                    userId |-> None]),
                          !.allConnections = @ \cup {s}]
    IN  IF clientIP \in st0.bannedIPs
        THEN LET st1 == socketDisconnectEarly(Emit(st0, Ev(s, "banned")), s)
             IN  [st1 EXCEPT !.allConnections = @ \ {s}]
        ELSE
        LET st1 == Emit(st0, [Ev(All, "onlineCount") EXCEPT
                                 !.count = Cardinality(st0.allConnections)])
        IN  IF cookie = None THEN st1
            ELSE LET userId == validateSessionToken(st1, cookie) IN
                 IF userId = None THEN Emit(st1, Ev(s, "invalidSession"))
                 ELSE IF userId \in st1.bannedUsers
                 THEN LET st2 == socketDisconnectEarly(Emit(st1, Ev(s, "banned")), s)
                      IN  [st2 EXCEPT !.allConnections = @ \ {s}]
                 ELSE LET st2 == IF st1.registeredUsers[userId].ip # clientIP
                                 THEN HandshakeRotate(st1, userId, clientIP)
                                 ELSE st1
                          user == st2.registeredUsers[userId]
                      IN  Emit(st2, [Ev(s, "sessionValid") EXCEPT
                                        !.userId = userId,
                                        !.nickname = user.nickname,
                                        !.isAdmin = user.isAdmin,
                                        !.sessionToken = user.sessionToken])

----------------------------------------------------------------------------
(* socket.on('setFingerprint') *)

OnSetFingerprint(st, s, fingerprint) ==
    IF fingerprint = None THEN st
    ELSE LET st1 == [st EXCEPT !.sockets[s].clientFingerprint = fingerprint] IN
         IF fingerprint \in st1.bannedFingerprints
         THEN LET st2 == socketDisconnect(Emit(st1, Ev(s, "banned")), s)
              IN  [st2 EXCEPT !.allConnections = @ \ {s}]
         ELSE st1

----------------------------------------------------------------------------
(* socket.on('setNickname') *)

\* BannedOrigin with a slip: the reported fingerprint is not looked at
BannedOriginIPOnly(st, s) == st.sockets[s].ip \in st.bannedIPs

\* the guards shared by setNickname and rejoin: banned IP, banned fingerprint
BannedOrigin(st, s) ==
    \/ st.sockets[s].ip \in st.bannedIPs
    \/ /\ st.sockets[s].clientFingerprint # None
       /\ st.sockets[s].clientFingerprint \in st.bannedFingerprints

\* notify every tracked session of the identity that its code is gone
RECURSIVE NotifyCodeDeleted(_, _)
NotifyCodeDeleted(st, sessions) ==
    IF sessions = <<>> THEN st
    ELSE LET sessionSocketId == Head(sessions)
             st1 == IF sessionSocketId \in DOMAIN st.sockets
                    THEN Emit(st, Ev(sessionSocketId, "deviceCodeDeleted"))
                    ELSE st
         IN  NotifyCodeDeleted(st1, Tail(sessions))

\* if (!userSessions.has(id)) userSessions.set(id, new Set()); userSessions.get(id).add(s)
TrackSession(st, userId, s) ==
    IF userId \in DOMAIN st.userSessions
    THEN [st EXCEPT !.userSessions[userId] = SetAdd(@, s)]
    ELSE [st EXCEPT !.userSessions = MapSet(@, userId, <<s>>)]

ActiveUser(st, userId, s) ==
    [ id |-> userId,
      nickname |-> st.registeredUsers[userId].nickname,
      socketId |-> s,
      isAdmin |-> st.registeredUsers[userId].isAdmin,
      ip |-> st.sockets[s].ip ]

\* DeviceCodeLogin with a slip: the code is not deleted after use
DeviceCodeLoginKeepsCode(st, s, userId) ==
    IF userId \in st.bannedUsers THEN Emit(st, Ev(s, "banned"))
    ELSE
    LET st1 == st
        st2 == IF userId \in DOMAIN st1.userSessions
               THEN NotifyCodeDeleted(st1, st1.userSessions[userId])
               ELSE st1
        newSessionToken == generateSessionToken(st2)
        st3 == [st2 EXCEPT !.nextToken = @ + 1,
                           !.sessionTokens = MapSet(@, newSessionToken, userId)]
        st4 == [st3 EXCEPT !.users = MapSet(@, s, ActiveUser(st3, userId, s)),
                           !.sockets[s].userId = userId]
        st5 == TrackSession(st4, userId, s)
        user == st5.registeredUsers[userId]
        st6 == Emit(st5, [Ev(s, "nicknameAccepted") EXCEPT
                             !.userId = userId,
                             !.nickname = user.nickname,
                             !.isAdmin = user.isAdmin,
                             !.deviceCode = NoStr,
                             !.sessionToken = newSessionToken,
                             !.flag = "isDeviceLogin"])
        st7 == Emit(st6, [Ev(s, "messageHistory") EXCEPT !.history = recentMessages(st6)])
    IN  Emit(st7, [Ev(All, "userJoined") EXCEPT
                      !.nickname = user.nickname,
                      !.count = Cardinality(st7.allConnections)])

\* the device-code branch, entered once validateDeviceCode found the identity
DeviceCodeLogin(st, s, userId) ==
    IF userId \in st.bannedUsers THEN Emit(st, Ev(s, "banned"))
    ELSE
    LET st1 == callSaveData([st EXCEPT !.registeredUsers[userId].deviceCode = NoStr])
        st2 == IF userId \in DOMAIN st1.userSessions
               THEN NotifyCodeDeleted(st1, st1.userSessions[userId])
               ELSE st1
        newSessionToken == generateSessionToken(st2)
        st3 == [st2 EXCEPT !.nextToken = @ + 1,
                           !.sessionTokens = MapSet(@, newSessionToken, userId)]
        st4 == [st3 EXCEPT !.users = MapSet(@, s, ActiveUser(st3, userId, s)),
                           !.sockets[s].userId = userId]
        st5 == TrackSession(st4, userId, s)
        user == st5.registeredUsers[userId]
        st6 == Emit(st5, [Ev(s, "nicknameAccepted") EXCEPT
                             !.userId = userId,
                             !.nickname = user.nickname,
                             !.isAdmin = user.isAdmin,
                             !.deviceCode = NoStr,
                             !.sessionToken = newSessionToken,
                             !.flag = "isDeviceLogin"])
        st7 == Emit(st6, [Ev(s, "messageHistory") EXCEPT !.history = recentMessages(st6)])
    IN  Emit(st7, [Ev(All, "userJoined") EXCEPT
                      !.nickname = user.nickname,
                      !.count = Cardinality(st7.allConnections)])

\* RegisterNickname with a slip: the admin flag is given, adminId is not set
RegisterNicknameNoAdminId(st, s, nickname) ==
    LET userId == st.nextUser
        sessionToken == generateSessionToken(st)
        isAdmin == st.adminId = None /\ toLowerCase(nickname) = Mefisto
        clientIP == st.sockets[s].ip
        st1 == [st EXCEPT !.nextUser = @ + 1,
                          !.nextToken = @ + 1]
        st2 == [st1 EXCEPT !.users = MapSet(@, s, [ id |-> userId,
                                                     nickname |-> nickname,
                                                     socketId |-> s,
                                                     isAdmin |-> isAdmin,
                                                     ip |-> clientIP ]),
                           !.sockets[s].userId = userId]
        st3 == IF st2.sockets[s].clientFingerprint # None
               THEN [st2 EXCEPT !.userFingerprints =
                                    MapSet(@, userId, st2.sockets[s].clientFingerprint)]
               ELSE st2
        st4 == [st3 EXCEPT !.registeredUsers =
                               MapSet(@, userId, [ id |-> userId,
                                                   nickname |-> nickname,
                                                   isAdmin |-> isAdmin,
                                                   ip |-> clientIP,
                                                   sessionToken |-> sessionToken,
                                                   deviceCode |-> NoStr ]),
                           !.sessionTokens = MapSet(@, sessionToken, userId)]
        st5 == Emit(callSaveData(st4), [Ev(s, "nicknameAccepted") EXCEPT
                             !.userId = userId,
                             !.nickname = nickname,
                             !.isAdmin = isAdmin,
                             !.deviceCode = NoStr,
                             !.sessionToken = sessionToken])
        st6 == Emit(st5, [Ev(s, "messageHistory") EXCEPT !.history = recentMessages(st5)])
    IN  Emit(st6, [Ev(All, "userJoined") EXCEPT
                      !.nickname = nickname,
                      !.count = Cardinality(st6.allConnections)])

\* the registration branch, once the nickname passed validation
RegisterNickname(st, s, nickname) ==
    LET userId == st.nextUser
        sessionToken == generateSessionToken(st)
        isAdmin == st.adminId = None /\ toLowerCase(nickname) = Mefisto
        clientIP == st.sockets[s].ip
        st1 == [st EXCEPT !.nextUser = @ + 1,
                          !.nextToken = @ + 1,
                          !.adminId = IF isAdmin THEN userId ELSE @]
        st2 == [st1 EXCEPT !.users = MapSet(@, s, [ id |-> userId,
                                                     nickname |-> nickname,
                                                     socketId |-> s,
                                                     isAdmin |-> isAdmin,
                                                     ip |-> clientIP ]),
                           !.sockets[s].userId = userId]
        st3 == IF st2.sockets[s].clientFingerprint # None
               THEN [st2 EXCEPT !.userFingerprints =
                                    MapSet(@, userId, st2.sockets[s].clientFingerprint)]
               ELSE st2
        st4 == [st3 EXCEPT !.registeredUsers =
                               MapSet(@, userId, [ id |-> userId,
                                                   nickname |-> nickname,
                                                   isAdmin |-> isAdmin,
                                                   ip |-> clientIP,
                                                   sessionToken |-> sessionToken,
                                                   deviceCode |-> NoStr ]),
                           !.sessionTokens = MapSet(@, sessionToken, userId)]
        st5 == Emit(callSaveData(st4), [Ev(s, "nicknameAccepted") EXCEPT
                             !.userId = userId,
                             !.nickname = nickname,
                             !.isAdmin = isAdmin,
                             !.deviceCode = NoStr,
                             !.sessionToken = sessionToken])
        st6 == Emit(st5, [Ev(s, "messageHistory") EXCEPT !.history = recentMessages(st5)])
    IN  Emit(st6, [Ev(All, "userJoined") EXCEPT
                      !.nickname = nickname,
                      !.count = Cardinality(st6.allConnections)])

\* OnSetNickname with a slip: the payload is looked up as typed, not upper-cased
OnSetNicknameCodeAsTyped(st, s, nickname) ==
    IF BannedOrigin(st, s)
    THEN socketDisconnect(Emit(st, Ev(s, "banned")), s)
    ELSE IF nickname \in NonStrings THEN Crash(st)
    ELSE
    LET deviceCodeUser == IF nickname # NoStr /\ CodeShaped(nickname)
                          THEN validateDeviceCode(st, nickname)
                          ELSE None
    IN  IF deviceCodeUser # None
        THEN DeviceCodeLogin(st, s, deviceCodeUser)
        ELSE IF nickname = NoStr \/ Len(trim(nickname)) < MinNick \/ Len(nickname) > MaxNick
        THEN Emit(st, [Ev(s, "error") EXCEPT !.flag = "Nickname must be 3-20 characters"])
        ELSE IF ~englishOnly(nickname)
        THEN Emit(st, [Ev(s, "error") EXCEPT !.flag = "Nickname must contain only English letters, numbers, and underscores"])
        ELSE IF ~isNicknameAvailable(st, nickname)
        THEN Emit(st, [Ev(s, "error") EXCEPT !.flag = "Nickname already taken"])
        ELSE RegisterNickname(st, s, nickname)

OnSetNickname(st, s, nickname) ==
    IF BannedOrigin(st, s)
    THEN socketDisconnect(Emit(st, Ev(s, "banned")), s)
    ELSE IF nickname \in NonStrings THEN Crash(st)      \* nickname.toUpperCase()
    ELSE
    LET deviceCodeUser == IF nickname # NoStr /\ CodeShaped(nickname)
                          THEN validateDeviceCode(st, toUpperCase(nickname))
                          ELSE None
    IN  IF deviceCodeUser # None
        THEN DeviceCodeLogin(st, s, deviceCodeUser)
        ELSE IF nickname = NoStr \/ Len(trim(nickname)) < MinNick \/ Len(nickname) > MaxNick
        THEN Emit(st, [Ev(s, "error") EXCEPT !.flag = "Nickname must be 3-20 characters"])
        ELSE IF ~englishOnly(nickname)
        THEN Emit(st, [Ev(s, "error") EXCEPT !.flag = "Nickname must contain only English letters, numbers, and underscores"])
        ELSE IF ~isNicknameAvailable(st, nickname)
        THEN Emit(st, [Ev(s, "error") EXCEPT !.flag = "Nickname already taken"])
        ELSE RegisterNickname(st, s, nickname)

----------------------------------------------------------------------------
(* socket.on('rejoin') *)

\* RejoinRotate with a slip: the new token is not put in the index
RejoinRotateNoIndex(st, userId, clientIP) ==
    LET user == st.registeredUsers[userId]
        newSessionToken == generateSessionToken(st)
    IN  [st EXCEPT !.nextToken = @ + 1,
                   !.sessionTokens = MapDelete(@, user.sessionToken),
                   !.registeredUsers[userId] =
                        [user EXCEPT !.ip = clientIP, !.sessionToken = newSessionToken]]

\* the IP-change branch of rejoin
RejoinRotate(st, userId, clientIP) ==
    LET user == st.registeredUsers[userId]
        newSessionToken == generateSessionToken(st)
    IN  callSaveData(
        [st EXCEPT !.nextToken = @ + 1,
                   !.sessionTokens = MapSet(MapDelete(@, user.sessionToken),
                                            newSessionToken, userId),
                   !.registeredUsers[userId] =
                        [user EXCEPT !.ip = clientIP, !.sessionToken = newSessionToken]])

\* userData is an object whose sessionToken field is the given token, None when
\* it is missing
OnRejoin(st, s, token) ==
    IF BannedOrigin(st, s)
    THEN socketDisconnect(Emit(st, Ev(s, "banned")), s)
    ELSE IF token = None
    THEN Emit(st, [Ev(s, "error") EXCEPT !.flag = "Invalid session data"])
    ELSE
    LET userId == validateSessionToken(st, token) IN
    IF userId = None THEN Emit(st, Ev(s, "invalidSession"))
    ELSE IF userId \in st.bannedUsers THEN Emit(st, Ev(s, "banned"))
    ELSE
    LET clientIP == st.sockets[s].ip
        st1 == IF st.registeredUsers[userId].ip # clientIP
               THEN RejoinRotate(st, userId, clientIP)
               ELSE st
        st2 == [st1 EXCEPT !.users = MapSet(@, s, ActiveUser(st1, userId, s)),
                           !.sockets[s].userId = userId]
        st3 == TrackSession(st2, userId, s)
        user == st3.registeredUsers[userId]
        st4 == Emit(st3, [Ev(s, "nicknameAccepted") EXCEPT
                             !.userId = userId,
                             !.nickname = user.nickname,
                             !.isAdmin = user.isAdmin,
                             !.deviceCode = user.deviceCode,
                             !.sessionToken = user.sessionToken,
                             !.flag = "isRejoin"])
        st5 == Emit(st4, [Ev(s, "messageHistory") EXCEPT !.history = recentMessages(st4)])
    IN  Emit(st5, [Ev(All, "userJoined") EXCEPT
                      !.nickname = user.nickname,
                      !.count = Cardinality(st5.allConnections)])

----------------------------------------------------------------------------
(* socket.on('generateDeviceCode'); newDeviceCode is what                   *)
(* generateUniqueDeviceCode() returned                                      *)

OnGenerateDeviceCode(st, s, newDeviceCode) ==
    IF st.sockets[s].userId = None \/ s \notin DOMAIN st.users
    THEN Emit(st, [Ev(s, "error") EXCEPT !.flag = "You must be logged in"])
    ELSE LET user == st.users[s] IN
         IF user.id \notin DOMAIN st.registeredUsers
         THEN Emit(st, [Ev(s, "error") EXCEPT !.flag = "User not found"])
         ELSE Emit(callSaveData(
                     [st EXCEPT !.registeredUsers[user.id].deviceCode = newDeviceCode]),
                   [Ev(s, "deviceCodeGenerated") EXCEPT !.deviceCode = newDeviceCode])

----------------------------------------------------------------------------
(* socket.on('message') *)

IsAlnum(c) == IsLower(c) \/ IsUpper(c) \/ c \in Digits
IsWord(c) == IsAlnum(c) \/ c = "_"            \* \w
IsSpace(c) == c \in Whitespace                  \* \s

\* s continues with the literal lit at index i (the i flag: letters in any case)
StartsAt(s, i, lit) ==
    /\ i >= 1
    /\ i + Len(lit) - 1 <= Len(s)
    /\ \A k \in 1..Len(lit) : toLowerCaseChar(s[i + k - 1]) = lit[k]

\* [^\s]+ at index i
NonSpaceAt(s, i) == i >= 1 /\ i <= Len(s) /\ ~IsSpace(s[i])

Schemes == { <<"h","t","t","p",":","/","/">>, <<"h","t","t","p","s",":","/","/">> }
Www == <<"w","w","w",".">>
TLDs == { <<"c","o","m">>, <<"r","u">>, <<"n","e","t">>, <<"o","r","g">>, <<"i","o">>,
          <<"g","g">>, <<"x","y","z">>, <<"m","e">>, <<"c","o">>, <<"u","k">>,
          <<"u","s">>, <<"t","v">>, <<"y","t">>, <<"c","c">>, <<"l","i","n","k">>,
          <<"s","i","t","e">>, <<"o","n","l","i","n","e">>, <<"s","t","o","r","e">>,
          <<"a","p","p">>, <<"d","e","v">>, <<"t","e","c","h">> }

\* urlRegex.test(trimmedMessage)
urlRegex(t) ==
    \E i \in 1..Len(t) :
        \/ \E sch \in Schemes : StartsAt(t, i, sch) /\ NonSpaceAt(t, i + Len(sch))
        \/ StartsAt(t, i, Www) /\ NonSpaceAt(t, i + Len(Www))
        \/ /\ IsAlnum(t[i]) \/ t[i] = "-"
           /\ StartsAt(t, i + 1, <<".">>)
           /\ \E tld \in TLDs : StartsAt(t, i + 2, tld)

\* /@\w+/.test(trimmedMessage)
mentionRegex(t) ==
    \E i \in 1..Len(t) : t[i] = "@" /\ i + 1 <= Len(t) /\ IsWord(t[i + 1])

\* trimmedMessage.replace(/[^a-zA-Z]/g, '')
lettersOnly(t) == SelectSeq(t, LAMBDA c : IsLower(c) \/ IsUpper(c))

allCaps(t) ==
    /\ Len(lettersOnly(t)) >= CapsMin
    /\ lettersOnly(t) = toUpperCase(lettersOnly(t))

\* code units of the scripts the last gate rejects; each of these strings stands
\* for one character: Cyrillic zhe (U+0436), CJK U+4E2D, fullwidth A (U+FF21)
NonEnglishChars == { "U+0436", "U+4E2D", "U+FF21" }

hasNonEnglish(t) == \E i \in 1..Len(t) : t[i] \in NonEnglishChars

\* SenderBanned with a slip: the ban set is not consulted
SenderBannedNever(st, s) == FALSE

\* bannedUsers.has(socket.userId)
SenderBanned(st, s) == st.sockets[s].userId \in st.bannedUsers

\* AcceptMessage with a slip: the text is not remembered
AcceptMessageForgets(st, s, trimmedMessage) ==
    LET user == st.users[s]
        userId == st.sockets[s].userId
        message == [ id |-> st.nextMsg, userId |-> user.id,
                     nickname |-> user.nickname, message |-> trimmedMessage,
                     timestamp |-> st.now ]
        st1 == [st EXCEPT !.nextMsg = @ + 1,
                          !.messages = Append(@, message)]
        st2 == IF Len(st1.messages) % SaveEvery = 0 THEN callSaveData(st1) ELSE st1
    IN  Emit(st2, [Ev(All, "message") EXCEPT !.messageId = message.id,
                                             !.userId = message.userId,
                                             !.nickname = message.nickname,
                                             !.message = message.message])

\* the message passed every gate: it is remembered, logged and broadcast
AcceptMessage(st, s, trimmedMessage) ==
    LET user == st.users[s]
        userId == st.sockets[s].userId
        message == [ id |-> st.nextMsg, userId |-> user.id,
                     nickname |-> user.nickname, message |-> trimmedMessage,
                     timestamp |-> st.now ]
        st1 == [st EXCEPT !.userLastMessages = MapSet(@, userId, trimmedMessage),
                          !.nextMsg = @ + 1,
                          !.messages = Append(@, message)]
        st2 == IF Len(st1.messages) % SaveEvery = 0 THEN callSaveData(st1) ELSE st1
    IN  Emit(st2, [Ev(All, "message") EXCEPT !.messageId = message.id,
                                             !.userId = message.userId,
                                             !.nickname = message.nickname,
                                             !.message = message.message])

\* OnMessage with a slip: the all-caps gate is consulted before the link gate
OnMessageCapsFirst(st, s, messageText) ==
    IF st.sockets[s].userId = None \/ s \notin DOMAIN st.users
    THEN Emit(st, [Ev(s, "error") EXCEPT !.flag = "You must set a nickname first"])
    ELSE IF st.sockets[s].userId \in st.bannedUsers
    THEN Emit(st, Ev(s, "banned"))
    ELSE IF messageText \in NonStrings THEN Crash(st)   \* messageText.trim()
    ELSE
    IF messageText = NoStr \/ Len(trim(messageText)) = 0 \/ Len(messageText) > MaxMessageLen
    THEN Emit(st, [Ev(s, "error") EXCEPT !.flag = "Message must be 1-100 characters"])
    ELSE
    LET trimmedMessage == trim(messageText)
        userId == st.sockets[s].userId
    IN  IF allCaps(trimmedMessage)
        THEN Emit(st, [Ev(s, "error") EXCEPT !.flag = "Please do not use all CAPS"])
        ELSE IF urlRegex(trimmedMessage)
        THEN Emit(st, [Ev(s, "error") EXCEPT !.flag = "Links are not allowed in chat"])
        ELSE IF mentionRegex(trimmedMessage)
        THEN Emit(st, [Ev(s, "error") EXCEPT !.flag = "Mentions (@username) are not allowed"])
        ELSE IF userId \in DOMAIN st.userLastMessages
                /\ st.userLastMessages[userId] = trimmedMessage
        THEN Emit(st, [Ev(s, "error") EXCEPT !.flag = "Cannot send duplicate messages"])
        ELSE IF hasNonEnglish(trimmedMessage)
        THEN Emit(st, [Ev(s, "error") EXCEPT !.flag = "Only English language is allowed in chat"])
        ELSE AcceptMessage(st, s, trimmedMessage)

\* OnMessage with a slip: the text is remembered before the last two gates
OnMessageRemembersEarly(st, s, messageText) ==
    IF st.sockets[s].userId = None \/ s \notin DOMAIN st.users
    THEN Emit(st, [Ev(s, "error") EXCEPT !.flag = "You must set a nickname first"])
    ELSE IF st.sockets[s].userId \in st.bannedUsers
    THEN Emit(st, Ev(s, "banned"))
    ELSE IF messageText \in NonStrings THEN Crash(st)   \* messageText.trim()
    ELSE
    IF messageText = NoStr \/ Len(trim(messageText)) = 0 \/ Len(messageText) > MaxMessageLen
    THEN Emit(st, [Ev(s, "error") EXCEPT !.flag = "Message must be 1-100 characters"])
    ELSE
    LET trimmedMessage == trim(messageText)
        userId == st.sockets[s].userId
        remembered == [st EXCEPT !.userLastMessages = MapSet(@, userId, trimmedMessage)]
    IN  IF urlRegex(trimmedMessage)
        THEN Emit(st, [Ev(s, "error") EXCEPT !.flag = "Links are not allowed in chat"])
        ELSE IF mentionRegex(trimmedMessage)
        THEN Emit(st, [Ev(s, "error") EXCEPT !.flag = "Mentions (@username) are not allowed"])
        ELSE IF userId \in DOMAIN st.userLastMessages
                /\ st.userLastMessages[userId] = trimmedMessage
        THEN Emit(st, [Ev(s, "error") EXCEPT !.flag = "Cannot send duplicate messages"])
        ELSE IF allCaps(trimmedMessage)
        THEN Emit(remembered, [Ev(s, "error") EXCEPT !.flag = "Please do not use all CAPS"])
        ELSE IF hasNonEnglish(trimmedMessage)
        THEN Emit(remembered, [Ev(s, "error") EXCEPT !.flag = "Only English language is allowed in chat"])
        ELSE AcceptMessage(st, s, trimmedMessage)

OnMessage(st, s, messageText) ==
    IF st.sockets[s].userId = None \/ s \notin DOMAIN st.users
    THEN Emit(st, [Ev(s, "error") EXCEPT !.flag = "You must set a nickname first"])
    ELSE IF SenderBanned(st, s)
    THEN Emit(st, Ev(s, "banned"))
    ELSE IF messageText \in NonStrings THEN Crash(st)   \* messageText.trim()
    ELSE
    IF messageText = NoStr \/ Len(trim(messageText)) = 0 \/ Len(messageText) > MaxMessageLen
    THEN Emit(st, [Ev(s, "error") EXCEPT !.flag = "Message must be 1-100 characters"])
    ELSE
    LET trimmedMessage == trim(messageText)
        userId == st.sockets[s].userId
    IN  IF urlRegex(trimmedMessage)
        THEN Emit(st, [Ev(s, "error") EXCEPT !.flag = "Links are not allowed in chat"])
        ELSE IF mentionRegex(trimmedMessage)
        THEN Emit(st, [Ev(s, "error") EXCEPT !.flag = "Mentions (@username) are not allowed"])
        ELSE IF userId \in DOMAIN st.userLastMessages
                /\ st.userLastMessages[userId] = trimmedMessage
        THEN Emit(st, [Ev(s, "error") EXCEPT !.flag = "Cannot send duplicate messages"])
        ELSE IF allCaps(trimmedMessage)
        THEN Emit(st, [Ev(s, "error") EXCEPT !.flag = "Please do not use all CAPS"])
        ELSE IF hasNonEnglish(trimmedMessage)
        THEN Emit(st, [Ev(s, "error") EXCEPT !.flag = "Only English language is allowed in chat"])
        ELSE AcceptMessage(st, s, trimmedMessage)

----------------------------------------------------------------------------
(* socket.on('banUser') *)

\* userSessions.get(targetUserId).forEach(...)
RECURSIVE BanSessions(_, _)
BanSessions(st, sessions) ==
    IF sessions = <<>> THEN st
    ELSE LET sessionSocketId == Head(sessions)
             st1 == IF sessionSocketId \in DOMAIN st.sockets
                    THEN socketDisconnect(Emit(st, Ev(sessionSocketId, "banned")),
                                          sessionSocketId)
                    ELSE st
             st2 == [st1 EXCEPT !.users = MapDelete(@, sessionSocketId)]
         IN  BanSessions(st2, Tail(sessions))

\* BanIP with a slip: the IP of the target is banned whoever shares it
BanIPAlways(st, targetUserData) ==
    IF targetUserData.ip # None
    THEN [st EXCEPT !.bannedIPs = @ \cup {targetUserData.ip}]
    ELSE st

\* the IP of the target is banned unless it is the recorded IP of the admin
BanIP(st, targetUserData) ==
    LET adminIP == IF st.adminId # None /\ st.adminId \in DOMAIN st.registeredUsers
                   THEN st.registeredUsers[st.adminId].ip
                   ELSE None
    IN  IF targetUserData.ip # None /\ targetUserData.ip # adminIP
        THEN [st EXCEPT !.bannedIPs = @ \cup {targetUserData.ip}]
        ELSE st

\* messages.splice(i, 1)
Splice(msgs, i) == SubSeq(msgs, 1, i - 1) \o SubSeq(msgs, i + 1, Len(msgs))

\* RemoveMessages with a slip: the loop stops before the first message (i > 0)
RECURSIVE RemoveMessagesSkipsFirst(_, _, _, _)
RemoveMessagesSkipsFirst(msgs, i, targetUserId, messagesToRemove) ==
    IF i < 2 THEN [ messages |-> msgs, messagesToRemove |-> messagesToRemove ]
    ELSE IF msgs[i].userId = targetUserId
    THEN RemoveMessagesSkipsFirst(Splice(msgs, i), i - 1, targetUserId,
                                  Append(messagesToRemove, msgs[i].id))
    ELSE RemoveMessagesSkipsFirst(msgs, i - 1, targetUserId, messagesToRemove)

\* for (let i = messages.length - 1; i >= 0; i--): i is the 1-based index here
RECURSIVE RemoveMessages(_, _, _, _)
RemoveMessages(msgs, i, targetUserId, messagesToRemove) ==
    IF i < 1 THEN [ messages |-> msgs, messagesToRemove |-> messagesToRemove ]
    ELSE IF msgs[i].userId = targetUserId
    THEN RemoveMessages(Splice(msgs, i), i - 1, targetUserId,
                        Append(messagesToRemove, msgs[i].id))
    ELSE RemoveMessages(msgs, i - 1, targetUserId, messagesToRemove)

\* messagesToRemove.forEach(messageId => io.emit('messageDeleted', messageId))
RECURSIVE NotifyMessagesDeleted(_, _)
NotifyMessagesDeleted(st, messagesToRemove) ==
    IF messagesToRemove = <<>> THEN st
    ELSE NotifyMessagesDeleted(
             Emit(st, [Ev(All, "messageDeleted") EXCEPT !.messageId = Head(messagesToRemove)]),
             Tail(messagesToRemove))

\* OnBanUser with a slip: the identity is not deleted from registeredUsers
OnBanUserKeepsIdentity(st, s, targetUserId) ==
    IF st.sockets[s].userId = None \/ st.sockets[s].userId # st.adminId
    THEN Emit(st, [Ev(s, "error") EXCEPT !.flag = "Only admin can ban users"])
    ELSE IF targetUserId \notin DOMAIN st.registeredUsers
    THEN Emit(st, [Ev(s, "error") EXCEPT !.flag = "User not found"])
    ELSE IF targetUserId = st.adminId
    THEN Emit(st, [Ev(s, "error") EXCEPT !.flag = "Cannot ban admin"])
    ELSE
    LET targetUserData == st.registeredUsers[targetUserId]
        st1 == [st EXCEPT !.bannedUsers = @ \cup {targetUserId},
                          !.bannedNicknames = @ \cup {toLowerCase(targetUserData.nickname)}]
        st2 == BanIP(st1, targetUserData)
        st3 == IF targetUserId \in DOMAIN st2.userFingerprints
               THEN [st2 EXCEPT !.bannedFingerprints =
                                    @ \cup {st2.userFingerprints[targetUserId]}]
               ELSE st2
        st4 == IF targetUserData.sessionToken # None
               THEN [st3 EXCEPT !.sessionTokens = MapDelete(@, targetUserData.sessionToken)]
               ELSE st3
        removal == RemoveMessages(st4.messages, Len(st4.messages), targetUserId, <<>>)
        st4a == NotifyMessagesDeleted([st4 EXCEPT !.messages = removal.messages],
                                      removal.messagesToRemove)
        st5 == IF targetUserId \in DOMAIN st4a.userSessions
               THEN LET st5a == BanSessions(st4a, st4a.userSessions[targetUserId])
                    IN  [st5a EXCEPT !.userSessions = MapDelete(@, targetUserId)]
               ELSE st4a
        st6 == st5
    IN  Emit(st6, [Ev(All, "userLeft") EXCEPT
                      !.nickname = targetUserData.nickname,
                      !.count = Cardinality(st6.allConnections),
                      !.flag = "banned"])

\* OnBanUser with a slip: the check that the target is not the admin is missing
OnBanUserNoSelfCheck(st, s, targetUserId) ==
    IF st.sockets[s].userId = None \/ st.sockets[s].userId # st.adminId
    THEN Emit(st, [Ev(s, "error") EXCEPT !.flag = "Only admin can ban users"])
    ELSE IF targetUserId \notin DOMAIN st.registeredUsers
    THEN Emit(st, [Ev(s, "error") EXCEPT !.flag = "User not found"])
    ELSE
    LET targetUserData == st.registeredUsers[targetUserId]
        st1 == [st EXCEPT !.bannedUsers = @ \cup {targetUserId},
                          !.bannedNicknames = @ \cup {toLowerCase(targetUserData.nickname)}]
        st2 == BanIP(st1, targetUserData)
        st3 == IF targetUserId \in DOMAIN st2.userFingerprints
               THEN [st2 EXCEPT !.bannedFingerprints =
                                    @ \cup {st2.userFingerprints[targetUserId]}]
               ELSE st2
        st4 == IF targetUserData.sessionToken # None
               THEN [st3 EXCEPT !.sessionTokens = MapDelete(@, targetUserData.sessionToken)]
               ELSE st3
        removal == RemoveMessages(st4.messages, Len(st4.messages), targetUserId, <<>>)
        st4a == NotifyMessagesDeleted([st4 EXCEPT !.messages = removal.messages],
                                      removal.messagesToRemove)
        st5 == IF targetUserId \in DOMAIN st4a.userSessions
               THEN LET st5a == BanSessions(st4a, st4a.userSessions[targetUserId])
                    IN  [st5a EXCEPT !.userSessions = MapDelete(@, targetUserId)]
               ELSE st4a
        st6 == callSaveData([st5 EXCEPT !.registeredUsers = MapDelete(@, targetUserId)])
    IN  Emit(st6, [Ev(All, "userLeft") EXCEPT
                      !.nickname = targetUserData.nickname,
                      !.count = Cardinality(st6.allConnections),
                      !.flag = "banned"])

OnBanUser(st, s, targetUserId) ==
    IF st.sockets[s].userId = None \/ st.sockets[s].userId # st.adminId
    THEN Emit(st, [Ev(s, "error") EXCEPT !.flag = "Only admin can ban users"])
    ELSE IF targetUserId \notin DOMAIN st.registeredUsers
    THEN Emit(st, [Ev(s, "error") EXCEPT !.flag = "User not found"])
    ELSE IF targetUserId = st.adminId
    THEN Emit(st, [Ev(s, "error") EXCEPT !.flag = "Cannot ban admin"])
    ELSE
    LET targetUserData == st.registeredUsers[targetUserId]
        st1 == [st EXCEPT !.bannedUsers = @ \cup {targetUserId},
                          !.bannedNicknames = @ \cup {toLowerCase(targetUserData.nickname)}]
        st2 == BanIP(st1, targetUserData)
        st3 == IF targetUserId \in DOMAIN st2.userFingerprints
               THEN [st2 EXCEPT !.bannedFingerprints =
                                    @ \cup {st2.userFingerprints[targetUserId]}]
               ELSE st2
        st4 == IF targetUserData.sessionToken # None
               THEN [st3 EXCEPT !.sessionTokens = MapDelete(@, targetUserData.sessionToken)]
               ELSE st3
        removal == RemoveMessages(st4.messages, Len(st4.messages), targetUserId, <<>>)
        st4a == NotifyMessagesDeleted([st4 EXCEPT !.messages = removal.messages],
                                      removal.messagesToRemove)
        st5 == IF targetUserId \in DOMAIN st4a.userSessions
               THEN LET st5a == BanSessions(st4a, st4a.userSessions[targetUserId])
                    IN  [st5a EXCEPT !.userSessions = MapDelete(@, targetUserId)]
               ELSE st4a
        st6 == callSaveData([st5 EXCEPT !.registeredUsers = MapDelete(@, targetUserId)])
    IN  Emit(st6, [Ev(All, "userLeft") EXCEPT
                      !.nickname = targetUserData.nickname,
                      !.count = Cardinality(st6.allConnections),
                      !.flag = "banned"])

----------------------------------------------------------------------------
(* REST endpoints; keyOk says whether the admin key of the request matches  *)

OnClearBans(st, keyOk) ==
    IF ~keyOk THEN st
    ELSE callSaveData([st EXCEPT !.bannedIPs = {}, !.bannedUsers = {},
                                 !.bannedNicknames = {}, !.bannedFingerprints = {}])

\* OnClearUsers with a slip: adminId is not reset
OnClearUsersKeepsAdminId(st, keyOk) ==
    IF ~keyOk THEN st
    ELSE [st EXCEPT !.registeredUsers = EmptyMap, !.sessionTokens = EmptyMap,
                    !.users = EmptyMap]

OnClearUsers(st, keyOk) ==
    IF ~keyOk THEN st
    ELSE callSaveData([st EXCEPT !.registeredUsers = EmptyMap, !.sessionTokens = EmptyMap,
                                 !.users = EmptyMap, !.adminId = None])

OnUnbanIP(st, keyOk, ip) ==
    IF ~keyOk THEN st
    ELSE IF ip \in st.bannedIPs THEN callSaveData([st EXCEPT !.bannedIPs = @ \ {ip}])
    ELSE st

----------------------------------------------------------------------------
(* The state machine *)

\* a browser that has not opened the page and stores no token
NoBrowser ==
    [ socket |-> None, token |-> None, currentUser |-> None, screen |-> "setup",
      inbox |-> <<>>, outbox |-> <<>>, presented |-> None, resumes |-> None ]

\* the process has started: its maps are empty, and loadData() has returned
\* (phase "ready") or is still waiting for the database (phase "loading")
Started(p) ==
    /\ sockets = EmptyMap
    /\ nextSock = 1
    /\ allConnections = {}
    /\ users = EmptyMap
    /\ userSessions = EmptyMap
    /\ registeredUsers = EmptyMap
    /\ sessionTokens = EmptyMap
    /\ nextToken = 1
    /\ nextUser = 1
    /\ bannedUsers = {}
    /\ bannedNicknames = {}
    /\ bannedIPs = {}
    /\ bannedFingerprints = {}
    /\ userFingerprints = EmptyMap
    /\ adminId = None
    /\ messages = <<>>
    /\ userLastMessages = EmptyMap
    /\ nextMsg = 1
    /\ now = 0
    /\ phase = p
    /\ browser = NoBrowser

\* the server of a deployment whose database holds no document, after loadData
Init == Started("ready")

\* the variables take the values the handler left
Assign(st) ==
    /\ sockets' = st.sockets
    /\ nextSock' = st.nextSock
    /\ allConnections' = st.allConnections
    /\ users' = st.users
    /\ userSessions' = st.userSessions
    /\ registeredUsers' = st.registeredUsers
    /\ sessionTokens' = st.sessionTokens
    /\ nextToken' = st.nextToken
    /\ nextUser' = st.nextUser
    /\ bannedUsers' = st.bannedUsers
    /\ bannedNicknames' = st.bannedNicknames
    /\ bannedIPs' = st.bannedIPs
    /\ bannedFingerprints' = st.bannedFingerprints
    /\ userFingerprints' = st.userFingerprints
    /\ adminId' = st.adminId
    /\ messages' = st.messages
    /\ userLastMessages' = st.userLastMessages
    /\ nextMsg' = st.nextMsg
    /\ now' = st.now
    /\ phase' = st.phase

\* the handler ran and left the state st (what it emitted, st.emitted, is
\* output and not kept); uuids, tokens and socket ids are handed out only
\* while the bounds of the model last
Becomes(st) ==
    /\ phase # "crashed"
    /\ st.nextSock <= MaxSockets + 1
    /\ st.nextUser <= MaxUsers + 1
    /\ st.nextToken <= MaxTokens + 1
    /\ st.nextMsg <= MaxMessages + 1
    /\ Assign(st)
    /\ browser' = browser


\* tokens a client can hold: every token issued so far, and a string that was
\* never issued
Bogus == -1
KnownTokens == (1..(nextToken - 1)) \cup {Bogus}

\* One event or request that reaches the server
Call(op, s) == [ op |-> op, socket |-> s, nickname |-> NoStr, token |-> None,
                 target |-> None, ip |-> None, fp |-> None, code |-> NoStr,
                 keyOk |-> TRUE, text |-> NoStr ]

ConnectCalls ==
    { [Call("connection", nextSock) EXCEPT !.ip = clientIP, !.token = cookie] :
        clientIP \in IPs, cookie \in KnownTokens \cup {None} }

SetFingerprintCalls ==
    { [Call("setFingerprint", s) EXCEPT !.fp = fingerprint] :
        s \in DOMAIN sockets, fingerprint \in FPs }

SetNicknameCalls ==
    { [Call("setNickname", s) EXCEPT !.nickname = nickname] :
        s \in DOMAIN sockets, nickname \in Nicknames }

RejoinCalls ==
    { [Call("rejoin", s) EXCEPT !.token = token] :
        s \in DOMAIN sockets, token \in KnownTokens \cup {None} }

GenerateDeviceCodeCalls ==
    { [Call("generateDeviceCode", s) EXCEPT !.code = newDeviceCode] :
        s \in DOMAIN sockets, newDeviceCode \in generateUniqueDeviceCode(St) }

BanUserCalls ==
    { [Call("banUser", s) EXCEPT !.target = targetUserId] :
        s \in DOMAIN sockets, targetUserId \in 1..MaxUsers }

\* what clients send as message text: two texts that pass every gate, and one
\* text for each gate that rejects
MessageTexts == { <<"h","i">>, <<" ","y","o"," ">>,
                  <<" ">>,
                  <<"a",".","R","U">>,
                  <<"@","b">>,
                  <<"H","E","Y">>,
                  <<"U+0436">> }

MessageCalls ==
    { [Call("message", s) EXCEPT !.text = messageText] :
        s \in DOMAIN sockets, messageText \in MessageTexts }

\* the transport of a live socket closes
DisconnectCalls == { Call("disconnect", s) : s \in DOMAIN sockets }

ClearBansCalls == { [Call("clear-bans", None) EXCEPT !.keyOk = k] : k \in BOOLEAN }

ClearUsersCalls == { [Call("clear-users", None) EXCEPT !.keyOk = k] : k \in BOOLEAN }

UnbanIPCalls ==
    { [Call("unban-ip", None) EXCEPT !.keyOk = k, !.ip = ip] : k \in BOOLEAN, ip \in IPs }

\* the handler of the event or request c, run from the state st
HandleIn(st, c) ==
    CASE c.op = "connection" -> OnConnection(st, c.ip, c.token)
      [] c.op = "setFingerprint" -> OnSetFingerprint(st, c.socket, c.fp)
      [] c.op = "setNickname" -> OnSetNickname(st, c.socket, c.nickname)
      [] c.op = "rejoin" -> OnRejoin(st, c.socket, c.token)
      [] c.op = "generateDeviceCode" -> OnGenerateDeviceCode(st, c.socket, c.code)
      [] c.op = "message" -> OnMessage(st, c.socket, c.text)
      [] c.op = "banUser" -> OnBanUser(st, c.socket, c.target)
      [] c.op = "disconnect" -> socketDisconnect(st, c.socket)
      [] c.op = "clear-bans" -> OnClearBans(st, c.keyOk)
      [] c.op = "clear-users" -> OnClearUsers(st, c.keyOk)
      [] c.op = "unban-ip" -> OnUnbanIP(st, c.keyOk, c.ip)

\* the state the handler leaves, with the events it emitted
Handle(c) == HandleIn(St, c)

Connect == \E c \in ConnectCalls : Becomes(Handle(c))

SetFingerprint == \E c \in SetFingerprintCalls : Becomes(Handle(c))

SetNickname == \E c \in SetNicknameCalls : Becomes(Handle(c))

Rejoin == \E c \in RejoinCalls : Becomes(Handle(c))

GenerateDeviceCode == \E c \in GenerateDeviceCodeCalls : Becomes(Handle(c))

Message == \E c \in MessageCalls : Becomes(Handle(c))

BanUser == \E c \in BanUserCalls : Becomes(Handle(c))

Disconnect == \E c \in DisconnectCalls : Becomes(Handle(c))

ClearBans == \E c \in ClearBansCalls : Becomes(Handle(c))

ClearUsers == \E c \in ClearUsersCalls : Becomes(Handle(c))

UnbanIP == \E c \in UnbanIPCalls : Becomes(Handle(c))

Next ==
    \/ Connect
    \/ SetFingerprint
    \/ SetNickname
    \/ Rejoin
    \/ GenerateDeviceCode
    \/ BanUser
    \/ Disconnect
    \/ ClearBans
    \/ ClearUsers
    \/ UnbanIP

Spec == Init /\ [][Next]_vars

\* The message log is written by the message handler and by a ban and read by
\* nothing that decides another variable, so the log is studied with the
\* handlers that attribute connections, send and ban; without sends the log
\* stays empty, which is what Spec explores.
NextLog ==
    \/ Connect
    \/ SetNickname
    \/ Rejoin
    \/ Message
    \/ BanUser
    \/ Disconnect

SpecLog == Init /\ [][NextLog]_vars

\* Credentials and bans: every handler but setFingerprint and message, with
\* one more token than Spec hands out, so that an identity that logged in on a
\* second device by code, or whose token was rotated, is banned by an admin
\* who registered after it, and the admin's token is rotated next to a ban.
BecomesCred(st) ==
    /\ phase # "crashed"
    /\ st.nextSock <= MaxSockets + 1
    /\ st.nextUser <= MaxUsers + 1
    /\ st.nextToken <= MaxCredTokens + 1
    /\ Assign(st)
    /\ browser' = browser

CredConnect == \E c \in ConnectCalls : BecomesCred(Handle(c))

CredSetNickname == \E c \in SetNicknameCalls : BecomesCred(Handle(c))

CredRejoin == \E c \in RejoinCalls : BecomesCred(Handle(c))

CredGenerateDeviceCode == \E c \in GenerateDeviceCodeCalls : BecomesCred(Handle(c))

CredBanUser == \E c \in BanUserCalls : BecomesCred(Handle(c))

CredDisconnect == \E c \in DisconnectCalls : BecomesCred(Handle(c))

CredClearBans == \E c \in ClearBansCalls : BecomesCred(Handle(c))

CredClearUsers == \E c \in ClearUsersCalls : BecomesCred(Handle(c))

CredUnbanIP == \E c \in UnbanIPCalls : BecomesCred(Handle(c))

NextCred ==
    \/ CredConnect
    \/ CredSetNickname
    \/ CredRejoin
    \/ CredGenerateDeviceCode
    \/ CredBanUser
    \/ CredDisconnect
    \/ CredClearBans
    \/ CredClearUsers
    \/ CredUnbanIP

SpecCred == Init /\ [][NextCred]_vars

----------------------------------------------------------------------------
(* The process from its start: server.listen() is called while              *)
(* initializeServer() is still waiting for the database, so handlers run    *)
(* before, and after, loadData() has restored the snapshot.  The database   *)
(* is outside the model: what findOne returns is an input of loadData.      *)

\* ids of a previous run of the process: uuids and tokens that no id or token
\* of this run equals
PriorUser == MaxUsers + 2
PriorToken == MaxCredTokens + 2
PriorMessage(k, ts) ==
    [ id |-> 0 - k, userId |-> PriorUser, nickname |-> <<"B","o","b","1">>,
      message |-> <<"o","l","d">>, timestamp |-> ts ]

\* no document (or no connection to the database)
NoDocument == [ present |-> FALSE ]

\* a document that saveData() of a previous run wrote: one identity, its
\* token, its messages in the order of the log, and what a ban left
PriorDocument ==
    [ present |-> TRUE,
      registeredUsers |-> << << PriorUser,
                            [ id |-> PriorUser, nickname |-> <<"B","o","b","1">>,
                              sessionToken |-> PriorToken, deviceCode |-> NoStr,
                              isAdmin |-> FALSE, ip |-> 1 ] >> >>,
      sessionTokens |-> << <<PriorToken, PriorUser>> >>,
      messages |-> << PriorMessage(1, 0 - MESSAGE_RETENTION_TIME),
                      PriorMessage(2, 0 - 1), PriorMessage(3, 0) >>,
      bannedUsers |-> << PriorUser + 1 >>,
      bannedNicknames |-> << <<"a","b","c">> >>,
      bannedIPs |-> <<>>,
      bannedFingerprints |-> <<>>,
      userFingerprints |-> <<>>,
      adminId |-> None,
      timestamp |-> 0 ]

Documents == { NoDocument, PriorDocument }

\* RestoreMessages with a slip: every saved message is restored, whatever its age
RestoreMessagesNoCutoff(msgs, saved, cutoff) == msgs \o saved

\* data.messages.forEach(msg => { if (msg.timestamp > cutoff) messages.push(msg) })
RestoreMessages(msgs, saved, cutoff) ==
    msgs \o SelectSeq(saved, LAMBDA msg : msg.timestamp > cutoff)

\* saved.forEach(([key, value]) => map.set(key, value))
RECURSIVE Restore(_, _)
Restore(map, saved) ==
    IF saved = <<>> THEN map
    ELSE Restore(MapSet(map, Head(saved)[1], Head(saved)[2]), Tail(saved))

\* loadData(), from the moment findOne has returned data
loadData(st, data) ==
    IF ~data.present THEN [st EXCEPT !.phase = "ready"]
    ELSE [st EXCEPT
            !.registeredUsers = Restore(@, data.registeredUsers),
            !.sessionTokens = Restore(@, data.sessionTokens),
            !.messages = RestoreMessages(@, data.messages, st.now - MESSAGE_RETENTION_TIME),
            !.bannedUsers = @ \cup Range(data.bannedUsers),
            !.bannedNicknames = @ \cup Range(data.bannedNicknames),
            !.bannedIPs = @ \cup Range(data.bannedIPs),
            !.bannedFingerprints = @ \cup Range(data.bannedFingerprints),
            !.userFingerprints = Restore(@, data.userFingerprints),
            !.adminId = IF data.adminId # None THEN data.adminId ELSE @,
            !.phase = "ready"]

\* the retention interval: messages.shift() while the head is older than cutoff
RECURSIVE ShiftOld(_, _)
ShiftOld(msgs, cutoff) ==
    IF Len(msgs) > 0 /\ msgs[1].timestamp < cutoff
    THEN ShiftOld(Tail(msgs), cutoff)
    ELSE msgs

CleanOldMessages(st) ==
    LET st1 == [st EXCEPT !.messages = ShiftOld(@, st.now - MESSAGE_RETENTION_TIME)]
    IN  IF Len(st1.messages) < Len(st.messages) THEN callSaveData(st1) ELSE st1

\* what clients may send where the handler expects a string
ProcSetNicknameCalls ==
    SetNicknameCalls \cup
    { [Call("setNickname", s) EXCEPT !.nickname = payload] :
        s \in DOMAIN sockets, payload \in NonStrings }

ProcMessageCalls ==
    MessageCalls \cup
    { [Call("message", s) EXCEPT !.text = payload] :
        s \in DOMAIN sockets, payload \in NonStrings }

BecomesProc(st) ==
    /\ phase # "crashed"
    /\ st.nextSock <= MaxSockets + 1
    /\ st.nextUser <= MaxUsers + 1
    /\ st.nextToken <= MaxTokens + 1
    /\ st.nextMsg <= MaxProcMessages + 1
    /\ Assign(st)
    /\ browser' = browser

\* initializeServer() gets to the end of loadData()
Load == \E data \in Documents : phase = "loading" /\ BecomesProc(loadData(St, data))

\* time passes
Tick == now < MaxTime /\ BecomesProc([St EXCEPT !.now = @ + 1])

\* the retention interval fires
Sweep == phase # "crashed" /\ BecomesProc(CleanOldMessages(St))

ProcConnect == \E c \in ConnectCalls : BecomesProc(Handle(c))

ProcSetNickname == \E c \in ProcSetNicknameCalls : BecomesProc(Handle(c))

ProcMessage == \E c \in ProcMessageCalls : BecomesProc(Handle(c))

ProcBanUser == \E c \in BanUserCalls : BecomesProc(Handle(c))

NextProc ==
    \/ Load
    \/ Tick
    \/ Sweep
    \/ ProcConnect
    \/ ProcSetNickname
    \/ ProcMessage
    \/ ProcBanUser

SpecProc == Started("loading") /\ [][NextProc]_vars

----------------------------------------------------------------------------
(* The client in one browser, and the server, with the events between them  *)
(* in flight.  Each direction of the connection delivers in the order of    *)
(* sending: outbox holds what the client emitted and the server has not     *)
(* handled yet, inbox what the server emitted to the connection and the     *)
(* client has not handled yet.                                              *)

MaxBrowserSockets == 3

\* socket.emit('rejoin', { sessionToken: getSessionToken() })
EmitRejoin(b) ==
    [b EXCEPT !.outbox = Append(@, [Call("rejoin", b.socket) EXCEPT !.token = b.token])]

\* socket.on('connect'): loadSavedNickname()
ClientOnConnect(b) == IF b.token # None THEN EmitRejoin(b) ELSE b

\* ClientOnSessionValid with a slip: the token is stored, no rejoin follows
ClientOnSessionValidNoRejoin(b, data) ==
    IF data.userId # None /\ data.nickname # NoStr /\ data.sessionToken # None
    THEN [b EXCEPT !.token = data.sessionToken]
    ELSE b

\* socket.on('sessionValid')
ClientOnSessionValid(b, data) ==
    IF data.userId # None /\ data.nickname # NoStr
    THEN LET b1 == IF data.sessionToken # None
                   THEN [b EXCEPT !.token = data.sessionToken]
                   ELSE b
         IN  IF b1.token # None THEN EmitRejoin(b1) ELSE b1
    ELSE b

\* socket.on('invalidSession')
ClientOnInvalidSession(b) == [b EXCEPT !.token = None, !.screen = "setup"]

\* socket.on('banned')
ClientOnBanned(b) == [b EXCEPT !.token = None, !.currentUser = None, !.screen = "setup"]

\* socket.on('nicknameAccepted')
ClientOnNicknameAccepted(b, data) ==
    [b EXCEPT !.currentUser = data.userId,
              !.token = IF data.sessionToken # None THEN data.sessionToken ELSE @,
              !.screen = "chat"]

\* the listeners of the client that touch the stored token or the page
ClientOn(b, e) ==
    CASE e.ev = "sessionValid" -> ClientOnSessionValid(b, e)
      [] e.ev = "invalidSession" -> ClientOnInvalidSession(b)
      [] e.ev = "banned" -> ClientOnBanned(b)
      [] e.ev = "nicknameAccepted" -> ClientOnNicknameAccepted(b, e)
      [] OTHER -> b

\* what the handler emitted to the connection s, in the order of emission
Delivered(r, s) ==
    SelectSeq(r.emitted, LAMBDA e : e.to = s /\ e.ev \in { "sessionValid", "invalidSession",
                                                            "banned", "nicknameAccepted" })

\* nothing is in flight on the connection of the browser
Quiescent == browser.inbox = <<>> /\ browser.outbox = <<>>

BecomesResume(st, b) ==
    /\ phase # "crashed"
    /\ st.nextSock <= MaxBrowserSockets + 1
    /\ st.nextUser <= MaxUsers + 1
    /\ st.nextToken <= MaxCredTokens + 1
    /\ Assign(st)
    /\ browser' = b

\* the page is opened from clientIP: io() connects with the cookie, the server
\* runs its connection handler, and the client its 'connect' listener
BrowserOpen ==
    \E clientIP \in IPs :
        /\ browser.socket = None
        /\ LET s == nextSock
               r == OnConnection(St, clientIP, browser.token)
               I == validateSessionToken(St, browser.token)
               b == [NoBrowser EXCEPT
                        !.socket = s,
                        !.token = browser.token,
                        !.inbox = Delivered(r, s),
                        !.presented = browser.token,
                        !.resumes = IF I # None /\ registeredUsers[I].ip # clientIP
                                    THEN I ELSE None]
           IN  s \in DOMAIN r.sockets /\ BecomesResume(r, ClientOnConnect(b))

\* the visitor submits a nickname on the setup screen
BrowserTypesNickname ==
    \E nickname \in Nicknames :
        /\ browser.socket # None
        /\ browser.screen = "setup"
        /\ Quiescent
        /\ BecomesResume(St, [browser EXCEPT !.outbox =
               Append(@, [Call("setNickname", browser.socket) EXCEPT !.nickname = nickname])])

\* the server handles the oldest event the client emitted
ServerReceives ==
    /\ browser.outbox # <<>>
    /\ \E r \in { HandleIn(St, Head(browser.outbox)) } :
           BecomesResume(r, [browser EXCEPT !.outbox = Tail(@),
                                            !.inbox = @ \o Delivered(r, browser.socket)])

\* the client handles the oldest event the server emitted to it
BrowserReceives ==
    /\ browser.inbox # <<>>
    /\ BecomesResume(St, ClientOn([browser EXCEPT !.inbox = Tail(@)], Head(browser.inbox)))

\* the page is closed; what the browser stored stays
BrowserClose ==
    /\ browser.socket # None
    /\ BecomesResume(socketDisconnect(St, browser.socket),
                     [NoBrowser EXCEPT !.token = browser.token])

\* somebody else connects, without a cookie
OtherConnect ==
    \E c \in ConnectCalls : c.token = None /\ BecomesResume(Handle(c), browser)

\* somebody else submits a nickname
OtherSetNickname ==
    \E c \in SetNicknameCalls : c.socket # browser.socket /\ BecomesResume(Handle(c), browser)

NextResume ==
    \/ BrowserOpen
    \/ BrowserTypesNickname
    \/ ServerReceives
    \/ BrowserReceives
    \/ BrowserClose
    \/ OtherConnect
    \/ OtherSetNickname

\* every event in flight is handled in the end
SpecResume ==
    Init /\ [][NextResume]_vars /\ WF_vars(ServerReceives) /\ WF_vars(BrowserReceives)

----------------------------------------------------------------------------
(* Vocabulary of the properties *)

Calls == ConnectCalls \cup SetFingerprintCalls \cup SetNicknameCalls \cup RejoinCalls
         \cup GenerateDeviceCodeCalls \cup BanUserCalls \cup DisconnectCalls
         \cup ClearBansCalls \cup ClearUsersCalls \cup UnbanIPCalls

UserIds == 1..(MaxUsers + 1)
TokenValues == (1..(MaxTokens + 1)) \cup {Bogus}

\* the live connections attributed to identity I: the users entries with that id
LiveAttributed(st, I) ==
    { s \in DOMAIN st.sockets : s \in DOMAIN st.users /\ st.users[s].id = I }

\* the tracked session set of identity I
SessionSet(st, I) ==
    IF I \in DOMAIN st.userSessions THEN Range(st.userSessions[I]) ELSE {}

Events(r, ev) == { i \in DOMAIN r.emitted : r.emitted[i].ev = ev }

\* the payloads a client may type for the code or nickname "bob1", in any case
ProbeNicknames == Nicknames \cup { <<"B","O","B","1">>, <<"b","o","b","1">>,
                                   <<"B","O","B","1","B","O">> }

ProbeSetNicknameCalls ==
    { [Call("setNickname", s) EXCEPT !.nickname = nickname] :
        s \in DOMAIN sockets, nickname \in ProbeNicknames }

----------------------------------------------------------------------------
(* C1: a userJoined for identity I is broadcast only by a handler that takes  *)
(* the number of live connections attributed to I from 0 to 1.                *)
C1_JoinedOnlyOnFirstConnection ==
    \A c \in SetNicknameCalls \cup RejoinCalls :
        LET r == Handle(c) IN
        (Events(r, "userJoined") # {}) =>
            LET I == r.users[c.socket].id IN
            /\ LiveAttributed(St, I) = {}
            /\ LiveAttributed(r, I) = {c.socket}

(* C2: when the last live connection attributed to identity I closes (the     *)
(* transport closes, no ban involved), the disconnect handler broadcasts      *)
(* exactly one userLeft with the nickname of I and without the banned flag.   *)
C2_LeftWhenLastConnectionCloses ==
    \A c \in DisconnectCalls :
        (c.socket \in DOMAIN users /\ LiveAttributed(St, users[c.socket].id) = {c.socket}) =>
            LET r == Handle(c) IN
            /\ Cardinality(Events(r, "userLeft")) = 1
            /\ \A i \in Events(r, "userLeft") :
                  /\ r.emitted[i].nickname = users[c.socket].nickname
                  /\ r.emitted[i].flag # "banned"

(* C3: when a connection attributed to identity I closes while another live   *)
(* connection is still attributed to I, no userLeft is broadcast.             *)
C3_NoLeftWhileStillConnected ==
    \A c \in DisconnectCalls :
        (c.socket \in DOMAIN users /\ LiveAttributed(St, users[c.socket].id) # {c.socket}) =>
            Events(Handle(c), "userLeft") = {}

(* C4: in every reachable state the tracked session set of every identity is  *)
(* exactly the set of live connections attributed to it.                      *)
C4_SessionsAreLiveAttributed ==
    \A I \in UserIds : SessionSet(St, I) = LiveAttributed(St, I)

\* the tokens a handler issued for identity I: put in the index by this call
IssuedFor(r, I) ==
    { t \in DOMAIN r.sessionTokens : t >= nextToken /\ r.sessionTokens[t] = I }

(* C5: a handler that issues a new session token for an identity that was     *)
(* registered before removes the token the identity held from the token index *)
(* and that token no longer validates.                                        *)
C5_IssuanceInvalidatesPriorToken ==
    \A c \in Calls :
        LET r == Handle(c) IN
        \A I \in DOMAIN registeredUsers :
            (IssuedFor(r, I) # {}) =>
                /\ registeredUsers[I].sessionToken \notin DOMAIN r.sessionTokens
                /\ validateSessionToken(r, registeredUsers[I].sessionToken) = None

(* C6: in every reachable state the tokens that validate to a registered      *)
(* identity are exactly its current sessionToken: the current token is in the *)
(* index and validates, and no other token validates to the identity.         *)
C6_ExactlyOneValidToken ==
    \A I \in DOMAIN registeredUsers :
        { t \in TokenValues : validateSessionToken(St, t) = I }
            = { registeredUsers[I].sessionToken }

\* after a ban, the admin's token still validates
C6_Witness ==
    /\ bannedUsers # {}
    /\ adminId \in DOMAIN registeredUsers
    /\ validateSessionToken(St, registeredUsers[adminId].sessionToken) = adminId

\* the tokens issued earlier that validate to no identity
StaleTokens == { t \in 1..(nextToken - 1) : validateSessionToken(St, t) = None }

\* a connection or rejoin call that presents the current token of identity I
\* from an IP other than the recorded one and is not turned away as banned
PresentsFromNewIP(c, I) ==
    /\ I # None
    /\ validateSessionToken(St, c.token) = I
    /\ \/ /\ c.op = "connection"
          /\ c.ip \notin bannedIPs
          /\ registeredUsers[I].ip # c.ip
       \/ /\ c.op = "rejoin"
          /\ ~BannedOrigin(St, c.socket)
          /\ registeredUsers[I].ip # sockets[c.socket].ip

ObservedIP(c) == IF c.op = "connection" THEN c.ip ELSE sockets[c.socket].ip

(* C7: when a connection that is not turned away as banned presents the       *)
(* current token of an identity from an IP B other than the recorded one, by  *)
(* cookie at the handshake or by rejoin, the identity gets a token never      *)
(* issued before, its recorded IP becomes B, the new token is sent to that    *)
(* connection, and the old token no longer validates; a token that does not   *)
(* validate never validates again, and presenting it attributes nothing and   *)
(* is answered with invalidSession.                                           *)
C7_RotationOnIPChange ==
    /\ \A c \in ConnectCalls \cup RejoinCalls :
          \A I \in DOMAIN registeredUsers :
              PresentsFromNewIP(c, I) =>
                  LET r == Handle(c)
                      new == r.registeredUsers[I].sessionToken
                  IN  /\ new # c.token
                      /\ new >= nextToken
                      /\ r.registeredUsers[I].ip = ObservedIP(c)
                      /\ validateSessionToken(r, new) = I
                      /\ validateSessionToken(r, c.token) = None
                      /\ \E i \in Events(r, "sessionValid") \cup Events(r, "nicknameAccepted") :
                            /\ r.emitted[i].to = c.socket
                            /\ r.emitted[i].userId = I
                            /\ r.emitted[i].sessionToken = new
    /\ \A c \in Calls :
          \A t \in StaleTokens : validateSessionToken(Handle(c), t) = None
    /\ \A c \in ConnectCalls \cup RejoinCalls :
          (c.token \in StaleTokens) =>
              LET r == Handle(c) IN
              /\ \A s \in DOMAIN r.users : s \in DOMAIN users /\ r.users[s] = users[s]
              /\ Events(r, "sessionValid") \cup Events(r, "nicknameAccepted") = {}
              /\ \/ \E i \in Events(r, "invalidSession") : r.emitted[i].to = c.socket
                 \/ \E i \in Events(r, "banned") : r.emitted[i].to = c.socket

\* the only identity has had its token rotated, and a live connection can
\* present the old one
C7_Witness ==
    /\ nextUser = 2
    /\ 1 \in DOMAIN registeredUsers
    /\ registeredUsers[1].sessionToken = 2
    /\ 1 \in StaleTokens
    /\ DOMAIN sockets # {}

\* the call logged its connection in as the identity U that existed before
LoggedInAs(r, s, U) ==
    /\ \E i \in Events(r, "nicknameAccepted") : r.emitted[i].to = s /\ r.emitted[i].userId = U
    /\ s \in DOMAIN r.users
    /\ r.users[s].id = U

Quiet(r) == [r EXCEPT !.emitted = <<>>, !.writes = <<>>]

(* C8: a setNickname logs a connection in as an existing identity U only if   *)
(* the payload, upper-cased, is the device code U holds, and it leaves U      *)
(* without a code; a code that is none becomes a code again only by a         *)
(* generateDeviceCode of a connection attributed to U; and of two connections *)
(* that submit the same live code one after the other, the first is logged in *)
(* (unless it is turned away as banned) and the second is not.                *)
C8_DeviceCodeSingleUse ==
    \A c \in Calls \cup ProbeSetNicknameCalls :
        LET r == Handle(c) IN
        /\ \A U \in DOMAIN registeredUsers \cap DOMAIN r.registeredUsers :
              (registeredUsers[U].deviceCode = NoStr /\ r.registeredUsers[U].deviceCode # NoStr) =>
                  /\ c.op = "generateDeviceCode"
                  /\ users[c.socket].id = U
        /\ (c.op = "setNickname") =>
              /\ \A U \in DOMAIN registeredUsers :
                    LoggedInAs(r, c.socket, U) =>
                        /\ registeredUsers[U].deviceCode = toUpperCase(c.nickname)
                        /\ r.registeredUsers[U].deviceCode = NoStr
                        /\ \A c2 \in ProbeSetNicknameCalls :
                              (/\ c2.socket # c.socket
                               /\ c2.socket \in DOMAIN r.sockets
                               /\ toUpperCase(c2.nickname) = toUpperCase(c.nickname)) =>
                                  ~LoggedInAs(OnSetNickname(Quiet(r), c2.socket, c2.nickname),
                                              c2.socket, U)
              /\ (CodeShaped(c.nickname) /\ ~BannedOrigin(St, c.socket)) =>
                    LET U == validateDeviceCode(St, toUpperCase(c.nickname)) IN
                    (U # None) => LoggedInAs(r, c.socket, U)

\* a code of identity U has been consumed: U holds no code and the token of
\* the device login is in the index
C8_Witness ==
    \E U \in DOMAIN registeredUsers :
        /\ registeredUsers[U].deviceCode = NoStr
        /\ \E t \in DOMAIN sessionTokens :
              sessionTokens[t] = U /\ t # registeredUsers[U].sessionToken
        /\ Cardinality(LiveAttributed(St, U)) = 2
        /\ SessionSet(St, U) # {}

(* C9: when a connection consumes the device code of identity U, every other  *)
(* live connection attributed to U is sent deviceCodeDeleted, and the         *)
(* consuming connection is attributed to U and tracked in U's session set.    *)
C9_ConsumptionNotifiesOtherDevices ==
    \A c \in ProbeSetNicknameCalls :
        LET r == Handle(c) IN
        \A U \in DOMAIN registeredUsers :
            LoggedInAs(r, c.socket, U) =>
                /\ \A s \in LiveAttributed(St, U) \ {c.socket} :
                      \E i \in Events(r, "deviceCodeDeleted") : r.emitted[i].to = s
                /\ c.socket \in LiveAttributed(r, U)
                /\ c.socket \in SessionSet(r, U)

(* C10: in every reachable state no two registered identities hold the same   *)
(* device code.                                                               *)
C10_DeviceCodesUnique ==
    \A U, V \in DOMAIN registeredUsers :
        (U # V /\ registeredUsers[U].deviceCode # NoStr) =>
            registeredUsers[U].deviceCode # registeredUsers[V].deviceCode

----------------------------------------------------------------------------
\* the nickname, compared without regard to case, is that of a registered
\* identity or is in the banned-nicknames set
Taken(st, nickname) ==
    \/ \E u \in DOMAIN st.registeredUsers :
          toLowerCase(st.registeredUsers[u].nickname) = toLowerCase(nickname)
    \/ toLowerCase(nickname) \in st.bannedNicknames

\* the handler answered the requester with this error and changed nothing
RejectedWith(r, s, text) ==
    /\ Quiet(r) = St
    /\ Len(r.emitted) = 1
    /\ r.emitted[1].ev = "error"
    /\ r.emitted[1].to = s
    /\ r.emitted[1].flag = text

\* the handler created one identity with this nickname for the connection
Registered(r, s, nickname) ==
    /\ DOMAIN r.registeredUsers = DOMAIN registeredUsers \cup {nextUser}
    /\ nextUser \notin DOMAIN registeredUsers
    /\ r.registeredUsers[nextUser].nickname = nickname
    /\ s \in DOMAIN r.users
    /\ r.users[s].id = nextUser
    /\ \E i \in Events(r, "nicknameAccepted") :
          r.emitted[i].to = s /\ r.emitted[i].userId = nextUser

(* C11: a setNickname whose payload, upper-cased, has the shape of a device   *)
(* code and comes from a connection that is not turned away as banned: if a   *)
(* registered identity holds that code, the connection is logged in as an     *)
(* identity that holds it and no identity is created; if none holds it, the   *)
(* payload is registered as a nickname: rejected with 'Nickname already       *)
(* taken' when it is taken, and otherwise a new identity with exactly that    *)
(* nickname is created for the connection.                                    *)
C11_CodeOrNicknameRouting ==
    \A c \in ProbeSetNicknameCalls :
        (CodeShaped(c.nickname) /\ ~BannedOrigin(St, c.socket)) =>
            LET r == Handle(c)
                holders == { U \in DOMAIN registeredUsers :
                               registeredUsers[U].deviceCode = toUpperCase(c.nickname) }
            IN  IF holders # {}
                THEN /\ \E U \in holders : LoggedInAs(r, c.socket, U)
                     /\ DOMAIN r.registeredUsers = DOMAIN registeredUsers
                     /\ r.nextUser = nextUser
                ELSE IF Taken(St, c.nickname)
                THEN RejectedWith(r, c.socket, "Nickname already taken")
                ELSE Registered(r, c.socket, c.nickname)

\* an identity whose nickname has the shape of a code has been logged in by
\* device code (the token of that login is in the index) and holds a code again
C11_Witness ==
    \E U \in DOMAIN registeredUsers :
        /\ registeredUsers[U].deviceCode # NoStr
        /\ CodeShaped(registeredUsers[U].nickname)
        /\ \E t \in DOMAIN sessionTokens :
              sessionTokens[t] = U /\ t # registeredUsers[U].sessionToken

----------------------------------------------------------------------------
\* the registered nicknames typed in other letter cases
CaseProbes == ProbeNicknames \cup { <<"m","e","f","i","s","t","o">>,
                                    <<"M","E","F","I","S","T","O">> }

CaseProbeCalls ==
    { [Call("setNickname", s) EXCEPT !.nickname = nickname] :
        s \in DOMAIN sockets, nickname \in CaseProbes }

\* the payload is consumed as the live device code of some identity
ConsumedAsCode(st, nickname) ==
    /\ nickname # NoStr
    /\ CodeShaped(nickname)
    /\ validateDeviceCode(st, toUpperCase(nickname)) # None

----------------------------------------------------------------------------
Admins(st) == { U \in DOMAIN st.registeredUsers : st.registeredUsers[U].isAdmin }

----------------------------------------------------------------------------
\* every event and request the server can receive in this state
AllCalls == Calls \cup MessageCalls \cup CaseProbeCalls

----------------------------------------------------------------------------
\* the banUser request passes the three checks of the handler
BanSucceeds(c) ==
    /\ c.op = "banUser"
    /\ sockets[c.socket].userId # None
    /\ sockets[c.socket].userId = adminId
    /\ c.target \in DOMAIN registeredUsers
    /\ c.target # adminId

(* C15: when banUser(U) succeeds, every live connection attributed to U is    *)
(* sent banned and disconnected and no users entry attributed to U remains;   *)
(* no live connection attributed to another identity is disconnected or loses *)
(* its users entry.                                                           *)
C15_BanReachesExactlyTargetConnections ==
    \A c \in BanUserCalls :
        BanSucceeds(c) =>
            LET r == Handle(c)
                U == c.target
            IN  /\ \A s \in LiveAttributed(St, U) :
                      /\ \E i \in Events(r, "banned") : r.emitted[i].to = s
                      /\ s \notin DOMAIN r.sockets
                /\ \A s \in DOMAIN r.users : r.users[s].id # U
                /\ \A s \in DOMAIN sockets :
                      (s \in DOMAIN users /\ users[s].id # U) =>
                          /\ s \in DOMAIN r.sockets
                          /\ s \in DOMAIN r.users
                          /\ r.users[s] = users[s]

----------------------------------------------------------------------------
\* the ids of the messages of the log that identity U authored
AuthoredIds(msgs, U) == { msgs[i].id : i \in { k \in DOMAIN msgs : msgs[k].userId = U } }

(* C16: after banUser(U) succeeds the message log holds no message authored   *)
(* by U, the messages of the other authors are all still there in the order   *)
(* they had, and for each removed message exactly one messageDeleted with its *)
(* id is broadcast, and no other messageDeleted.                              *)
C16_BanRemovesTargetMessages ==
    \A c \in BanUserCalls :
        BanSucceeds(c) =>
            LET r == Handle(c)
                U == c.target
                removed == AuthoredIds(messages, U)
            IN  /\ \A i \in DOMAIN r.messages : r.messages[i].userId # U
                /\ r.messages = SelectSeq(messages, LAMBDA m : m.userId # U)
                /\ \A id \in removed :
                      Cardinality({ i \in Events(r, "messageDeleted") :
                                      r.emitted[i].messageId = id }) = 1
                /\ \A i \in Events(r, "messageDeleted") :
                      /\ r.emitted[i].messageId \in removed
                      /\ r.emitted[i].to = All

\* three messages were sent, the first and the third by an identity that was
\* banned afterwards, and the log holds the second
C16_Witness ==
    /\ nextMsg = 4
    /\ bannedUsers # {}
    /\ Len(messages) = 1
    /\ messages[1].id = 2

----------------------------------------------------------------------------
(* C17: a banUser(U) that succeeds puts U's nickname, lower-cased, in the     *)
(* banned-nicknames set; nothing but the bulk clear-bans request takes a      *)
(* nickname out of that set; and while a nickname is in it, a setNickname     *)
(* with that nickname in any letter case, from any connection, creates no     *)
(* identity: it is rejected with 'Nickname already taken' unless the          *)
(* connection is turned away as banned or the payload is consumed as a live   *)
(* device code.                                                               *)
C17_BannedNicknameStaysBlocked ==
    /\ \A c \in BanUserCalls :
          BanSucceeds(c) =>
              toLowerCase(registeredUsers[c.target].nickname) \in Handle(c).bannedNicknames
    /\ \A c \in AllCalls :
          ~(c.op = "clear-bans" /\ c.keyOk) =>
              bannedNicknames \subseteq Handle(c).bannedNicknames
    /\ \A c \in CaseProbeCalls :
          (toLowerCase(c.nickname) \in bannedNicknames) =>
              LET r == Handle(c) IN
              /\ DOMAIN r.registeredUsers \subseteq DOMAIN registeredUsers
              /\ r.nextUser = nextUser
              /\ (~BannedOrigin(St, c.socket) /\ ~ConsumedAsCode(St, c.nickname)) =>
                    RejectedWith(r, c.socket, "Nickname already taken")

\* an identity was banned, its nickname is blocked and belongs to no registered
\* identity, and a connection that is not turned away as banned is live
C17_Witness ==
    /\ bannedUsers # {}
    /\ bannedNicknames # {}
    /\ \A n \in bannedNicknames : \A U \in DOMAIN registeredUsers :
          toLowerCase(registeredUsers[U].nickname) # n
    /\ \E s \in DOMAIN sockets : ~BannedOrigin(St, s)

----------------------------------------------------------------------------
\* the tokens issued for identity U that the index or the identity still holds
TokensOf(st, U) ==
    { t \in DOMAIN st.sessionTokens : st.sessionTokens[t] = U }
    \cup (IF U \in DOMAIN st.registeredUsers
          THEN {st.registeredUsers[U].sessionToken} ELSE {})

\* the identities that were created and are registered no more
Gone == { U \in 1..(nextUser - 1) : U \notin DOMAIN registeredUsers }

(* C18: a banUser(U) that succeeds deletes U, takes U's session token out of  *)
(* the index, and leaves no token issued for U (at registration, by rotation, *)
(* by a device-code login) that validates and no device code that resolves to *)
(* U; and for an identity that is gone, no event or request registers it      *)
(* again, attributes a connection to it or answers sessionValid or            *)
(* nicknameAccepted for it, whatever token or code is presented, and a token  *)
(* that does not validate never validates again.                              *)
C18_BanInvalidatesCredentials ==
    /\ \A c \in BanUserCalls :
          BanSucceeds(c) =>
              LET r == Handle(c)
                  U == c.target
              IN  /\ U \notin DOMAIN r.registeredUsers
                  /\ registeredUsers[U].sessionToken \notin DOMAIN r.sessionTokens
                  /\ \A t \in TokensOf(St, U) : validateSessionToken(r, t) = None
                  /\ \A code \in DrawCodes \cup FallbackCodes :
                        validateDeviceCode(r, code) # U
    /\ \A c \in AllCalls :
          LET r == Handle(c) IN
          /\ \A t \in StaleTokens : validateSessionToken(r, t) = None
          /\ \A U \in Gone :
                /\ U \notin DOMAIN r.registeredUsers
                /\ \A s \in DOMAIN r.users :
                      (r.users[s].id = U) => (s \in DOMAIN users /\ users[s].id = U)
                /\ \A s \in DOMAIN r.sockets :
                      (r.sockets[s].userId = U) =>
                          (s \in DOMAIN sockets /\ sockets[s].userId = U)
                /\ \A i \in Events(r, "sessionValid") \cup Events(r, "nicknameAccepted") :
                      r.emitted[i].userId # U

\* an identity that had logged in on a device by code was banned: the token of
\* that login is still in the index, and a connection that is not turned away
\* as banned is live and can present it
C18_Witness ==
    /\ bannedUsers # {}
    /\ \E U \in Gone : \E t \in DOMAIN sessionTokens : sessionTokens[t] = U
    /\ \E s \in DOMAIN sockets : ~BannedOrigin(St, s)

----------------------------------------------------------------------------
\* banUser requests naming every id the server has or may hand out, and none
BanProbeCalls ==
    { [Call("banUser", s) EXCEPT !.target = targetUserId] :
        s \in DOMAIN sockets, targetUserId \in UserIds \cup {None, Bogus} }

\* the error the handler answers a banUser request it does not carry out
BanError(c) ==
    IF sockets[c.socket].userId = None \/ sockets[c.socket].userId # adminId
    THEN "Only admin can ban users"
    ELSE IF c.target \notin DOMAIN registeredUsers THEN "User not found"
    ELSE "Cannot ban admin"

(* C19: a banUser request from a connection whose socket.userId is not the    *)
(* admin id (an unattributed connection and adminId = null included), or      *)
(* naming a target that is not registered, or naming the admin, emits one     *)
(* error, to the requester, and leaves identities, token index, message log,  *)
(* the four ban sets, presence maps and live connections as they were.        *)
C19_RejectedBanChangesNothing ==
    \A c \in BanProbeCalls :
        ~BanSucceeds(c) => RejectedWith(Handle(c), c.socket, BanError(c))

\* the log holds a message, the admin and another identity each have a live
\* connection, so that a ban can be refused for each of the three reasons
C19_Witness ==
    /\ messages # <<>>
    /\ adminId # None
    /\ adminId \in DOMAIN registeredUsers
    /\ \E s \in DOMAIN sockets : sockets[s].userId = adminId
    /\ \E s \in DOMAIN sockets : sockets[s].userId \notin {None, adminId}
    /\ Gone # {}

----------------------------------------------------------------------------
----------------------------------------------------------------------------
(* C21: a successful banUser adds to the banned-IP set no client IP of a      *)
(* connection that is live and attributed to the admin identity.              *)
C21_AdminConnectionsNeverIPBanned ==
    \A c \in BanUserCalls :
        BanSucceeds(c) =>
            \A s \in LiveAttributed(St, adminId) :
                sockets[s].ip \notin (Handle(c).bannedIPs \ bannedIPs)

----------------------------------------------------------------------------
\* the userLeft broadcasts of a handler's run that name the nickname
LeftNotices(r, nickname) ==
    { i \in Events(r, "userLeft") : r.emitted[i].to = All /\ r.emitted[i].nickname = nickname }

(* C22: a successful banUser(U) broadcasts exactly one userLeft for U, and it *)
(* carries banned = true; closing the connections of U, which the ban does    *)
(* before it returns, broadcasts no other userLeft for U.                     *)
C22_BanBroadcastsOneUserLeft ==
    \A c \in BanUserCalls :
        BanSucceeds(c) =>
            LET r == Handle(c)
                left == LeftNotices(r, registeredUsers[c.target].nickname)
            IN  /\ Cardinality(left) = 1
                /\ \A i \in left : r.emitted[i].flag = "banned"

----------------------------------------------------------------------------
\* the client IP of the connection is banned, or the fingerprint it reported is
FromBannedOrigin(s) ==
    \/ sockets[s].ip \in bannedIPs
    \/ sockets[s].clientFingerprint \in bannedFingerprints

\* the handler sent banned to the connection and left it neither live nor in
\* the global connection set
TurnedAway(r, s) ==
    /\ \E i \in Events(r, "banned") : r.emitted[i].to = s
    /\ s \notin DOMAIN r.sockets
    /\ s \notin r.allConnections

\* the connection has the attribution it had before the handler ran, or none
NotNewlyAttributed(r, s) ==
    /\ s \in DOMAIN r.users => (s \in DOMAIN users /\ r.users[s] = users[s])
    /\ s \in DOMAIN r.sockets => r.sockets[s].userId = sockets[s].userId

(* C23: no handler attributes a connection to an identity in a step in which  *)
(* the connection's client IP is in the banned-IP set or the fingerprint it   *)
(* reported is in the banned-fingerprint set; a setNickname (nickname or      *)
(* device code) or rejoin from such a connection is answered with banned and  *)
(* the connection is closed; a connection arriving from a banned IP, and one  *)
(* reporting a banned fingerprint, is sent banned, closed and removed from    *)
(* allConnections.                                                            *)
C23_NoAttributionForBannedOrigins ==
    /\ \A c \in Calls \cup ProbeSetNicknameCalls :
          \A s \in DOMAIN sockets :
              FromBannedOrigin(s) => NotNewlyAttributed(Handle(c), s)
    /\ \A c \in ProbeSetNicknameCalls \cup RejoinCalls :
          FromBannedOrigin(c.socket) => TurnedAway(Handle(c), c.socket)
    /\ \A c \in ConnectCalls :
          c.ip \in bannedIPs =>
              /\ TurnedAway(Handle(c), c.socket)
              /\ Handle(c).users = users
    /\ \A c \in SetFingerprintCalls :
          c.fp \in bannedFingerprints =>
              /\ TurnedAway(Handle(c), c.socket)
              /\ c.socket \notin DOMAIN Handle(c).users

\* a live connection has a banned IP, another has a clean IP and reported a
\* banned fingerprint, and an identity holds a token and a device code that a
\* rejoin or a code login would accept
C23_Witness ==
    /\ \E s \in DOMAIN sockets : sockets[s].ip \in bannedIPs
    /\ \E s \in DOMAIN sockets :
          /\ sockets[s].ip \notin bannedIPs
          /\ sockets[s].clientFingerprint \in bannedFingerprints
    /\ \E U \in DOMAIN registeredUsers :
          /\ validateSessionToken(St, registeredUsers[U].sessionToken) = U
          /\ registeredUsers[U].deviceCode # NoStr

----------------------------------------------------------------------------
\* the broadcasts that carry the online count
CountEvents(r) ==
    { i \in DOMAIN r.emitted :
        r.emitted[i].to = All /\ r.emitted[i].ev \in {"onlineCount", "userJoined", "userLeft"} }

(* C24: in every reachable state allConnections is the set of open transport  *)
(* connections (a connection rejected as banned is closed), attributed or     *)
(* not, and every handler leaves it so; every count sent in onlineCount,      *)
(* userJoined and userLeft is the number of open connections at the moment    *)
(* the event is sent.                                                         *)
C24_OnlineCountIsLiveConnections ==
    /\ allConnections = DOMAIN sockets
    /\ \A c \in AllCalls :
          LET r == Handle(c) IN
          /\ r.allConnections = DOMAIN r.sockets
          /\ \A i \in CountEvents(r) : r.emitted[i].count = r.emitted[i].live

\* an IP is banned, so that a connection from it is turned away; a connection
\* is open and unattributed, and the number of registered identities differs
\* from the number of open connections
C24_Witness ==
    /\ bannedIPs # {}
    /\ \E s \in DOMAIN sockets : s \notin DOMAIN users
    /\ Cardinality(DOMAIN registeredUsers) # Cardinality(DOMAIN sockets)

----------------------------------------------------------------------------
\* 99 blanks and "hi": 101 characters as sent, 2 once trimmed
PaddedText ==
    [ i \in 1..(MaxMessageLen + 1) |->
        IF i < MaxMessageLen THEN " " ELSE IF i = MaxMessageLen THEN "h" ELSE "i" ]

\* "a.ru" and 97 more letters: 101 characters and a link
LongLinkText ==
    [ i \in 1..(MaxMessageLen + 1) |->
        IF i = 2 THEN "." ELSE IF i = 3 THEN "r" ELSE IF i = 4 THEN "u" ELSE "a" ]

\* texts that fail more than one gate, next to the texts the clients send
GateProbeTexts ==
    MessageTexts \cup
    { <<"A","A","A",".","I","O">>,          \* link and all-caps
      <<"@","b",".","r","u">>,              \* link and mention
      <<"@","A","B","C">>,                  \* mention and all-caps
      <<"@","b","U+0436">>,                 \* mention and non-English
      <<"H","E","Y","U+4E2D">>,             \* all-caps and non-English
      <<"h","e","y","U+FF21">>,             \* non-English only
      <<"h","e","y">>,
      PaddedText,                           \* too long as sent
      LongLinkText,                         \* too long and a link
      NoStr }

GateProbeCalls ==
    { [Call("message", s) EXCEPT !.text = messageText] :
        s \in DOMAIN sockets, messageText \in GateProbeTexts }

\* the first gate, in the order of the claim, that the message fails in the
\* current state; "none" when it passes them all
FirstFailingGate(c) ==
    LET s == c.socket
        U == sockets[s].userId
        t == trim(c.text)
    IN  IF U = None \/ s \notin DOMAIN users THEN "attributed"
        ELSE IF U \in bannedUsers THEN "banned"
        ELSE IF c.text = NoStr \/ Len(t) = 0 \/ Len(c.text) > MaxMessageLen THEN "length"
        ELSE IF urlRegex(t) THEN "link"
        ELSE IF mentionRegex(t) THEN "mention"
        ELSE IF U \in DOMAIN userLastMessages /\ userLastMessages[U] = t THEN "duplicate"
        ELSE IF allCaps(t) THEN "caps"
        ELSE IF hasNonEnglish(t) THEN "script"
        ELSE "none"

\* what the server answers for each gate
GateAnswer(g) ==
    CASE g = "attributed" -> "You must set a nickname first"
      [] g = "length"     -> "Message must be 1-100 characters"
      [] g = "link"       -> "Links are not allowed in chat"
      [] g = "mention"    -> "Mentions (@username) are not allowed"
      [] g = "duplicate"  -> "Cannot send duplicate messages"
      [] g = "caps"       -> "Please do not use all CAPS"
      [] g = "script"     -> "Only English language is allowed in chat"
      [] OTHER            -> ""

\* the message was appended to the log, trimmed, and broadcast
MessageAccepted(r, c) ==
    /\ Len(r.messages) = Len(messages) + 1
    /\ SubSeq(r.messages, 1, Len(messages)) = messages
    /\ r.messages[Len(r.messages)].message = trim(c.text)
    /\ Len(r.emitted) = 1
    /\ r.emitted[1].ev = "message"
    /\ r.emitted[1].to = All
    /\ r.emitted[1].message = trim(c.text)

\* the message was answered with the notice of gate g and went nowhere
MessageRefused(r, c, g) ==
    /\ r.messages = messages
    /\ Len(r.emitted) = 1
    /\ r.emitted[1].to = c.socket
    /\ IF g = "banned"
       THEN r.emitted[1].ev = "banned"
       ELSE r.emitted[1].ev = "error" /\ r.emitted[1].flag = GateAnswer(g)

(* C25: the outcome of a message event is that of the first gate it fails in  *)
(* the order sender attributed, sender's identity not banned, length, link,   *)
(* mention, duplicate, all-caps, non-English script; it is appended to the    *)
(* log and broadcast exactly when it fails none. The length gate is the one   *)
(* the handler applies.                                                       *)
C25_FirstFailingGateDecides ==
    \A c \in GateProbeCalls :
        LET g == FirstFailingGate(c)
            r == Handle(c)
        IN  IF g = "none" THEN MessageAccepted(r, c) ELSE MessageRefused(r, c, g)

\* an identity that is not banned has a live connection and a remembered last
\* text, and a banned identity still has a live connection
C25_Witness ==
    /\ \E s \in DOMAIN users :
          /\ sockets[s].userId \notin bannedUsers
          /\ sockets[s].userId \in DOMAIN userLastMessages
    /\ \E s \in DOMAIN users : sockets[s].userId \in bannedUsers

----------------------------------------------------------------------------
\* the handler answered the message with the length error
RefusedForLength(r, c) ==
    \E i \in Events(r, "error") :
        r.emitted[i].to = c.socket /\ r.emitted[i].flag = GateAnswer("length")

(* C26: a message from an attributed sender that is not banned is refused for *)
(* its length exactly when the length of the text after trimming is not       *)
(* between 1 and 100; a text of at most 100 characters once trimmed is not    *)
(* refused for length, however long it was as sent.                           *)
C26_LengthGateOnTrimmedText ==
    \A c \in GateProbeCalls :
        FirstFailingGate(c) \notin {"attributed", "banned"} =>
            (RefusedForLength(Handle(c), c)
                <=> ~(Len(trim(c.text)) \in 1..MaxMessageLen))

----------------------------------------------------------------------------
\* the text remembered for the identity, NoStr when there is none
LastTextOf(st, U) ==
    IF U \in DOMAIN st.userLastMessages THEN st.userLastMessages[U] ELSE NoStr

\* the handler logged and broadcast nothing
NothingLogged(r) == r.messages = messages /\ Events(r, "message") = {}

(* C27: a message whose trimmed text is the text remembered for the sender's  *)
(* identity, sent from any connection of that identity, is refused; a refused *)
(* message leaves every remembered text as it was; an accepted message        *)
(* becomes the remembered text of its identity, and the text remembered       *)
(* before it is then accepted again from any live connection of the identity. *)
C27_DuplicateGate ==
    \A c \in GateProbeCalls :
        LET r == Handle(c)
            U == sockets[c.socket].userId
            old == LastTextOf(St, U)
        IN  /\ (U # None /\ old # NoStr /\ trim(c.text) = old) => NothingLogged(r)
            /\ NothingLogged(r) => r.userLastMessages = userLastMessages
            /\ ~NothingLogged(r) =>
                  /\ LastTextOf(r, U) = trim(c.text)
                  /\ \A other \in LiveAttributed(r, U) :
                        old # NoStr =>
                            LET r2 == OnMessage(Quiet(r), other, old)
                            IN  /\ Len(r2.messages) = Len(r.messages) + 1
                                /\ r2.messages[Len(r2.messages)].message = old
                                /\ Events(r2, "message") # {}

\* an identity has two live connections and a remembered text, and the log
\* holds an earlier message of it with another text
C27_Witness ==
    \E U \in DOMAIN userLastMessages :
        /\ Cardinality(LiveAttributed(St, U)) = 2
        /\ \E i \in DOMAIN messages :
              messages[i].userId = U /\ messages[i].message # userLastMessages[U]

----------------------------------------------------------------------------
\* a nickname one character longer than the limit
LongNickname == [ i \in 1..(MaxNick + 1) |-> "a" ]

NicknameProbeCalls ==
    CaseProbeCalls \cup
    { [Call("setNickname", s) EXCEPT !.nickname = nickname] :
        s \in DOMAIN sockets, nickname \in ProbeNicknames \cup {LongNickname} }

\* the validation a nickname fails in the current state: its length, its
\* shape, its availability; "" when it fails none
NicknameError(nickname) ==
    IF nickname = NoStr \/ Len(trim(nickname)) < MinNick \/ Len(nickname) > MaxNick
    THEN "Nickname must be 3-20 characters"
    ELSE IF \E i \in 1..Len(nickname) :
               ~(IsLower(nickname[i]) \/ IsUpper(nickname[i])
                   \/ nickname[i] \in Digits \/ nickname[i] = "_")
    THEN "Nickname must contain only English letters, numbers, and underscores"
    ELSE IF Taken(St, nickname) THEN "Nickname already taken"
    ELSE ""

\* the handler answered the requester with one banned event and changed nothing
AnsweredBanned(r, s) ==
    /\ Quiet(r) = St
    /\ Len(r.emitted) = 1
    /\ r.emitted[1].ev = "banned"
    /\ r.emitted[1].to = s

(* C28: a setNickname that reaches validation (the connection is not turned   *)
(* away as banned, the payload is not a live device code) and fails it for    *)
(* length, shape or availability, and a message that fails a moderation gate, *)
(* emit one error, to the originating connection, broadcast nothing, and      *)
(* leave identities, token index, device codes, message log, last-message     *)
(* memory, ban sets, presence maps, connections and adminId as they were; the *)
(* message of a banned sender is answered with banned instead of error, with  *)
(* the same lack of effect.                                                   *)
C28_ValidationFailuresChangeNothing ==
    /\ \A c \in NicknameProbeCalls :
          (/\ ~FromBannedOrigin(c.socket)
           /\ ~ConsumedAsCode(St, c.nickname)
           /\ NicknameError(c.nickname) # "") =>
              RejectedWith(Handle(c), c.socket, NicknameError(c.nickname))
    /\ \A c \in GateProbeCalls :
          LET g == FirstFailingGate(c) IN
          /\ g \notin {"none", "banned"} => RejectedWith(Handle(c), c.socket, GateAnswer(g))
          /\ g = "banned" => AnsweredBanned(Handle(c), c.socket)

\* the log holds a message, a text is remembered for an identity that is live
\* and not banned, two nicknames are taken and one of them is banned
C28_Witness ==
    /\ messages # <<>>
    /\ \E s \in DOMAIN users :
          /\ sockets[s].userId \notin bannedUsers
          /\ sockets[s].userId \in DOMAIN userLastMessages
          /\ ~FromBannedOrigin(s)
    /\ bannedNicknames # {}
    /\ registeredUsers # EmptyMap

----------------------------------------------------------------------------
\* events whose payload has the wrong type: a number or an object where
\* setNickname and message expect a string, a non-object where rejoin expects
\* an object (it has no sessionToken to offer)
MalformedCalls ==
    { [Call("setNickname", s) EXCEPT !.nickname = payload] :
        s \in DOMAIN sockets, payload \in NonStrings }
    \cup { [Call("message", s) EXCEPT !.text = payload] :
             s \in DOMAIN sockets, payload \in NonStrings }
    \cup { Call("rejoin", s) : s \in DOMAIN sockets }

(* C29: an event whose payload has the wrong type leaves the process running, *)
(* and, unless its connection is turned away as banned, leaves the state as   *)
(* it was.                                                                    *)
C29_MalformedEventsContained ==
    \A c \in MalformedCalls :
        LET r == Handle(c) IN
        /\ r.phase = phase
        /\ ~FromBannedOrigin(c.socket) => Quiet(r) = St

----------------------------------------------------------------------------
(* C30: in every reachable state the message log is in non-decreasing order   *)
(* of timestamp from head to tail.                                            *)
C30_LogSortedByTimestamp ==
    \A i, j \in DOMAIN messages :
        i < j => messages[i].timestamp <= messages[j].timestamp

----------------------------------------------------------------------------
\* the message is older than the retention horizon at time t
Expired(msg, t) == msg.timestamp < t - MESSAGE_RETENTION_TIME

(* C31: right after the retention sweep the log holds no message older than   *)
(* the retention horizon, at the head or elsewhere; a messageHistory sent to  *)
(* a connection holds no message older than the horizon at that moment.       *)
C31_NothingExpiredAfterSweep ==
    /\ LET r == CleanOldMessages(St) IN
       \A i \in DOMAIN r.messages : ~Expired(r.messages[i], now)
    /\ \A c \in ProcSetNicknameCalls \cup RejoinCalls :
          LET r == Handle(c) IN
          \A e \in Events(r, "messageHistory") :
              \A i \in DOMAIN r.emitted[e].history :
                  ~Expired(r.emitted[e].history[i], now)

----------------------------------------------------------------------------
\* a process that starts at time t with nothing in memory
Restarted(st, t) == [Crash(st) EXCEPT !.phase = "loading", !.now = t]

\* one message more than a snapshot keeps, all sent at the current time
BurstLog ==
    [ i \in 1..(SnapshotMessages + 1) |->
        [ id |-> 0 - i, userId |-> PriorUser, nickname |-> <<"B","o","b","1">>,
          message |-> <<"h","i">>, timestamp |-> now ] ]

\* the states whose snapshot is taken: the current one, the ones a new device
\* code leaves, and the current one with a log longer than a snapshot keeps
SnapshotProbes ==
    {St} \cup { Quiet(Handle(c)) : c \in GenerateDeviceCodeCalls }
         \cup { [St EXCEPT !.messages = BurstLog] }

\* the moments at which the snapshot is loaded
LoadTimes == now..(now + MESSAGE_RETENTION_TIME + 1)

\* the message is within the retention horizon at time t, as loadData reads it
Retained(msg, t) == msg.timestamp > t - MESSAGE_RETENTION_TIME

\* what a process that starts empty at time t has after loading the snapshot of S
RoundTrip(S, t) == loadData(Restarted(S, t), saveData(S))

\* identities, ban sets and adminId come back as they were
SameIdentitiesAndBans(L, S) ==
    /\ L.registeredUsers = S.registeredUsers
    /\ L.bannedUsers = S.bannedUsers
    /\ L.bannedNicknames = S.bannedNicknames
    /\ L.bannedIPs = S.bannedIPs
    /\ L.bannedFingerprints = S.bannedFingerprints
    /\ L.adminId = S.adminId

(* C32 as stated: loading the snapshot of S into an empty process restores    *)
(* the identities, the four ban sets, adminId, and exactly the messages of S  *)
(* that are within the retention horizon at load time, in the same order.     *)
C32_SnapshotRoundTrip ==
    \A S \in SnapshotProbes : \A t \in LoadTimes :
        LET L == RoundTrip(S, t) IN
        /\ SameIdentitiesAndBans(L, S)
        /\ L.messages = SelectSeq(S.messages, LAMBDA msg : Retained(msg, t))

(* C32 amended: loading the snapshot of S into an empty process restores the  *)
(* identities, the four ban sets, adminId, and exactly those of the last 1000 *)
(* messages of S that are within the retention horizon at load time, in the   *)
(* same order.                                                                *)
C32_SnapshotRoundTripOfLastMessages ==
    \A S \in SnapshotProbes : \A t \in LoadTimes :
        LET L == RoundTrip(S, t) IN
        /\ SameIdentitiesAndBans(L, S)
        /\ L.messages = SelectSeq(Slice(S.messages, SnapshotMessages),
                                  LAMBDA msg : Retained(msg, t))

\* an admin and a banned identity exist, the log holds messages sent at
\* different times, and one of them is past the horizon now
C32_Witness ==
    /\ adminId # None
    /\ registeredUsers # EmptyMap
    /\ bannedUsers # {}
    /\ bannedNicknames # {}
    /\ \E i, j \in DOMAIN messages : messages[i].timestamp # messages[j].timestamp
    /\ \E i \in DOMAIN messages : ~Retained(messages[i], now)

----------------------------------------------------------------------------
\* a log one message short of the next periodic save
AlmostSaveLog == [ i \in 1..(SaveEvery - 1) |-> PriorMessage(i, now) ]

\* the database does not store the write
Unsaved == DbStates \ {"resolves"}

\* the handler that ran with the database in state o did to the memory of the
\* process, and emitted, what the handler ok that ran with writes resolving did
SameAsWhenSaved(r, ok, o) ==
    /\ Quiet(r) = [Quiet(ok) EXCEPT !.db = o]
    /\ r.emitted = ok.emitted

\* the sends of a short plain message, one per live connection
SaveTriggerCalls == { c \in MessageCalls : c.text = <<"h","i">> }

(* C33: persistence never blocks the chat.  Whatever the database does with   *)
(* a write (it resolves, rejects, stays pending for ever, or there is no      *)
(* connection), every handler that saves leaves the same memory and emits the *)
(* same events as when the write resolves; a message that triggers the        *)
(* periodic save is appended and broadcast, the write is handed over when     *)
(* there is a connection, and every later event is handled with the same      *)
(* result.                                                                    *)
C33_PersistenceNeverBlocks ==
    /\ \A c \in Calls \cup MessageCalls :
           LET ok == Handle(c)
           IN  (ok.writes # <<>>) =>
                   \A o \in Unsaved :
                       SameAsWhenSaved(HandleIn([St EXCEPT !.db = o], c), ok, o)
    /\ \A c \in SaveTriggerCalls :
           LET P == [St EXCEPT !.messages = AlmostSaveLog]
               ok == HandleIn(P, c)
               later == Quiet(ok)
           IN  (Len(ok.messages) = SaveEvery) =>
                   /\ Len(ok.writes) = 1
                   /\ \A o \in DbStates :
                          LET r == HandleIn([P EXCEPT !.db = o], c)
                          IN  /\ Len(r.writes) = IF o = "null" THEN 0 ELSE 1
                              /\ \A i \in DOMAIN r.writes :
                                     /\ r.writes[i].outcome = o
                                     /\ saveData(r.writes[i].memory).messages = r.messages
                              /\ r.messages = Append(AlmostSaveLog, r.messages[SaveEvery])
                              /\ r.messages[SaveEvery].message = trim(c.text)
                              /\ Len(r.emitted) = 1
                              /\ r.emitted[1].ev = "message"
                              /\ r.emitted[1].to = All
                              /\ r.emitted[1].message = trim(c.text)
                              /\ SameAsWhenSaved(r, ok, o)
                   /\ \A c2 \in Calls \cup MessageCalls :
                          LET ok2 == HandleIn(later, c2)
                          IN  \A o \in Unsaved :
                                  SameAsWhenSaved(HandleIn([later EXCEPT !.db = o], c2),
                                                  ok2, o)

\* a connection can send the message that triggers the periodic save while
\* the database never answers, and another handler has handed a write over
C33_Witness ==
    /\ \E c \in SaveTriggerCalls :
           LET r == HandleIn([St EXCEPT !.messages = AlmostSaveLog, !.db = "pending"], c)
           IN  Len(r.messages) = SaveEvery /\ Len(r.writes) = 1
                   /\ r.writes[1].outcome = "pending"
    /\ \E c \in Calls : Handle(c).writes # <<>>
    /\ messages # <<>>

----------------------------------------------------------------------------
\* the code is written in the alphabet A-Z0-9
OverCodeAlphabet(code) == \A i \in 1..Len(code) : code[i] \in UpperLetters \cup Digits

\* the length of one draw
DrawLen == 4

\* generateUniqueDeviceCode returns, after at most RetryLimit colliding draws,
\* a code no identity holds, or a code of n characters once the limit is hit
ReturnsWithFallbackOf(n) ==
    \A draws \in Draws :
        LET r == DrawLoop(St, draws, 0)
        IN  /\ r.attempts <= RetryLimit + 1
            /\ r.code \in generateUniqueDeviceCode(St)
            /\ OverCodeAlphabet(r.code)
            /\ IF r.fallback
               THEN /\ r.attempts = RetryLimit + 1
                    /\ \A k \in 1..RetryLimit : CodeHeld(St, draws[k])
                    /\ Len(r.code) = n
               ELSE /\ Len(r.code) = DrawLen
                    /\ ~CodeHeld(St, r.code)
                    /\ \A k \in 1..(r.attempts - 1) : CodeHeld(St, draws[k])

(* C34, as the claim states it: generateUniqueDeviceCode always returns,      *)
(* after at most 100 colliding draws; when the retry limit is hit the code    *)
(* is 8 characters long over A-Z0-9, otherwise it is a 4-character code that  *)
(* no identity holds.                                                         *)
C34_FallbackIsEightCharacters == ReturnsWithFallbackOf(8)

(* C34, amended: the same, with a fallback code of 6 characters (a draw       *)
(* followed by the first two characters of another draw).                     *)
C34_FallbackIsSixCharacters == ReturnsWithFallbackOf(DrawLen + FallbackExtra)

\* an identity holds the only code the draws produce, so the limit is hit
C34_Witness ==
    \E draws \in Draws :
        /\ DrawLoop(St, draws, 0).fallback
        /\ \E u \in DOMAIN registeredUsers : registeredUsers[u].deviceCode = draws[1]

----------------------------------------------------------------------------
\* the events of r that deliver a session token to a connection
TokenDeliveries(r) ==
    { i \in Events(r, "nicknameAccepted") \cup Events(r, "sessionValid") :
        r.emitted[i].sessionToken # None }

(* C35: every delivered token is usable.  Whenever a handler sends a          *)
(* sessionToken in nicknameAccepted or in sessionValid, the token validates   *)
(* to the identity named in the event when the handler ends, and a rejoin     *)
(* that presents it next from the same connection is accepted and not         *)
(* answered with invalidSession.                                              *)
C35_DeliveredTokenValidates ==
    \A c \in AllCalls :
        LET r == Handle(c)
        IN  \A i \in TokenDeliveries(r) :
                LET e == r.emitted[i]
                    again == OnRejoin(Quiet(r), e.to, e.sessionToken)
                IN  /\ validateSessionToken(r, e.sessionToken) = e.userId
                    /\ e.to \in DOMAIN r.sockets
                    /\ Events(again, "invalidSession") = {}
                    /\ \E j \in Events(again, "nicknameAccepted") :
                           /\ again.emitted[j].to = e.to
                           /\ again.emitted[j].userId = e.userId

----------------------------------------------------------------------------
\* the browser ended attributed to identity I, on the chat page, storing the
\* current token of I
ResumedAs(I) ==
    /\ Quiescent
    /\ browser.socket \in DOMAIN sockets
    /\ sockets[browser.socket].userId = I
    /\ browser.socket \in DOMAIN users
    /\ users[browser.socket].id = I
    /\ I \in DOMAIN registeredUsers
    /\ browser.token = registeredUsers[I].sessionToken
    /\ validateSessionToken(St, browser.token) = I
    /\ browser.currentUser = I
    /\ browser.screen = "chat"

\* the browser opened the page from a new IP presenting the current token
\* of an identity, and the page is still open
Resuming == browser.resumes # None

(* C36: resume after an IP change converges.  A client that holds the         *)
(* current token of its identity and connects from a new IP, presenting the   *)
(* token in the handshake cookie and in the rejoin it sends on connect, ends, *)
(* once the replies of the server are handled in the order of the connection, *)
(* attributed to its identity and storing the current token of the identity;  *)
(* it never comes to rest logged out or without its token.                    *)
C36_ResumeConverges ==
    /\ [](Resuming /\ Quiescent => ResumedAs(browser.resumes))
    /\ (Resuming ~> (ResumedAs(browser.resumes) \/ ~Resuming))

\* a resume that rotated the token has come to rest
C36_Witness ==
    /\ Resuming
    /\ ResumedAs(browser.resumes)
    /\ browser.token # browser.presented

----------------------------------------------------------------------------
\* no message of the log of st was written by an identity banned in st
LogClean(st) ==
    \A i \in 1..Len(st.messages) : st.messages[i].userId \notin st.bannedUsers

(* C37: no message of a banned identity is ever in the log.  In every         *)
(* reachable state, and in the state every event or request leaves (sends     *)
(* from any connection, bans, clear-bans, disconnects), no message in the log *)
(* has an author id that is in the banned-identity set.                       *)
C37_NoMessageOfBannedIdentity ==
    /\ LogClean(St)
    /\ \A c \in AllCalls : LogClean(Handle(c))

\* an identity is banned while one of its connections is still attributed
\* and can send, and the log holds messages
C37_Witness ==
    /\ messages # <<>>
    /\ \E s \in DOMAIN users :
           /\ users[s].id \in bannedUsers
           /\ s \in DOMAIN sockets
           /\ sockets[s].userId = users[s].id

----------------------------------------------------------------------------
\* the admin bans the identity that the snapshot restored
LoadedBanCalls ==
    { [Call("banUser", s) EXCEPT !.target = PriorUser] : s \in DOMAIN sockets }

(* C38: an IP ban silences every connection from that IP.  While IP X is in   *)
(* the banned-IP set, no message sent by a live connection whose client IP is *)
(* X is appended to the log, connections of other identities that were        *)
(* attributed before the ban included.                                        *)
C38_IPBanSilencesConnections ==
    \A st \in {St} \cup { Quiet(Handle(b)) : b \in BanUserCalls \cup LoadedBanCalls } :
        \A s \in DOMAIN st.sockets :
            (st.sockets[s].ip \in st.bannedIPs) =>
                \A text \in MessageTexts : OnMessage(st, s, text).messages = st.messages

----------------------------------------------------------------------------
\* no two registered identities have the same nickname, letter case ignored
NicknamesUniqueIn(st) ==
    \A u, v \in DOMAIN st.registeredUsers :
        u # v => toLowerCase(st.registeredUsers[u].nickname)
                     # toLowerCase(st.registeredUsers[v].nickname)

\* at most one registered identity is admin, and adminId names it
OneAdminIn(st) ==
    \A u \in DOMAIN st.registeredUsers :
        st.registeredUsers[u].isAdmin => st.adminId = u

\* the log is in the order of its timestamps
SortedIn(st) ==
    \A i, j \in DOMAIN st.messages :
        i < j => st.messages[i].timestamp <= st.messages[j].timestamp

(* C39: the startup load does not race with clients.  Whatever registrations  *)
(* and messages were handled while loadData was pending, the state once       *)
(* loadData has completed has nicknames that are unique in any letter case,   *)
(* at most one admin identity, named by adminId, and a log in timestamp       *)
(* order.                                                                     *)
C39_LoadDoesNotRace ==
    (phase = "ready") => NicknamesUniqueIn(St) /\ OneAdminIn(St) /\ SortedIn(St)

----------------------------------------------------------------------------
(* C40: token index hygiene.  In every reachable state every entry            *)
(* token -> id of the session-token index refers to a registered identity     *)
(* whose stored sessionToken is that token; no entry outlives the rotation,   *)
(* device-code login or ban that made it stale.                               *)
C40_TokenIndexHygiene ==
    \A token \in DOMAIN sessionTokens :
        /\ sessionTokens[token] \in DOMAIN registeredUsers
        /\ registeredUsers[sessionTokens[token]].sessionToken = token

====
